---------------------------- MODULE Spec2Model ----------------------------
(***************************************************************************)
(* The cross-validation harnesses of the tabular-playground-series         *)
(* notebooks: fold assignment, the fold loop of the scoring functions      *)
(* (fit on the fold's training rows, out-of-fold predictions, averaged     *)
(* test predictions), the loading function, the preprocessing functions   *)
(* passed to the scorers, predict_proba of the extended linear classifiers *)
(* and the tweak of the class probabilities.                               *)
(*                                                                         *)
(* Library calls are modelled by what they do to the harness:              *)
(*   - a seeded numpy RandomState is a fixed stream of draws (mt0 for seed *)
(*     0); an unseeded one draws fresh values each time it is used;        *)
(*   - an estimator is the record of what its fit was given; its           *)
(*     predict_proba is a function of that record and of the row;          *)
(*   - floats are exact rationals <<numerator, denominator>> in lowest     *)
(*     terms.                                                              *)
(***************************************************************************)
EXTENDS Integers, Sequences, FiniteSets, TLC

(* ------------------------------- bounds -------------------------------- *)
\* rows of train.feather in the model
NTrain == 6
\* rows of test.feather (or of the holdout set) in the model
NTest == 2
\* length of the period of a random stream
StreamLen == 2
\* calls of scoring functions in one notebook session
MaxCalls == 2
\* rows of a frame a feature-engineering function is applied to
MaxFrame == 2
\* largest decision value of a linear classifier, in multiples of ln 2
MaxDecision == 3

(* -------------------------- program constants -------------------------- *)
\* the folds and the seed of the TPS 2021-10 notebooks (Baselines, Feature
\* Engineering, Stacking); the sessions of the other notebooks, which set
\* NUM_FOLDS to 6 or 10, are run with these too
NUM_FOLDS == 3
RANDOM_SEED == 0

Rows == 1..NTrain
TestRows == 1..NTest
Folds == 0..(NUM_FOLDS - 1)

(* ------------------------------ rationals ------------------------------ *)
Abs(n) == IF n < 0 THEN -n ELSE n

RECURSIVE GCD(_, _)
GCD(a, b) == IF b = 0 THEN a ELSE GCD(b, a % b)

\* n/d in lowest terms, d > 0
Rat(n, d) ==
    LET g == GCD(Abs(n), Abs(d))
        s == IF d < 0 THEN -1 ELSE 1
    IN  <<(s * n) \div g, (s * d) \div g>>

Zero == <<0, 1>>
RatAdd(a, b) == Rat(a[1] * b[2] + b[1] * a[2], a[2] * b[2])
RatDivInt(a, k) == Rat(a[1], a[2] * k)
RatLess(a, b) == a[1] * b[2] < b[1] * a[2]

RECURSIVE RatSum(_, _)
\* sum of f[i] over the finite set S
RatSum(f, S) ==
    IF S = {} THEN Zero
    ELSE LET i == CHOOSE j \in S : TRUE
         IN  RatAdd(f[i], RatSum(f, S \ {i}))


(* ------------------------------- state --------------------------------- *)
VARIABLES
    nb,           \* the notebook of this session
    pc,           \* "idle" between calls, "loop" inside a fold loop, ...
    target,       \* train['target'], by row
    mt0,          \* the draws of RandomState(0), a stream of period StreamLen
    fn,           \* the scoring function that is running
    fold,         \* the fold the loop is about to run
    test_folds,   \* the fold whose validation set holds each row
    sklearn_model,\* the estimator object passed to the scoring function
    model,        \* the estimator object the last fold fitted
    oof_preds,    \* out-of-fold predictions of the running call, by row
    test_preds,   \* accumulated test predictions of the running call
    scores,       \* fold scores of the running call
    oof_writes,   \* history: the writes of oof_preds, by row
    fold_test,    \* history: each fold's test predictions
    ret,          \* what the calls of each scoring function returned
    calls,        \* calls made so far in the session
    lnl_prunes,   \* whether LearningWithNoisyLabels prunes rows before fitting
    \* Stacking notebook
    kfold,        \* train['kfold'], by row
    cell,         \* the next cell of the notebook to run
    used_valid,   \* history: the validation rows each function used, by fold
    oof_preds_df, \* the global frame oof_preds: its kfold column and the rest
    test_preds_df,\* the global frame test_preds: its prediction columns
    \* Feature Engineering notebook
    file,         \* train.feather: the target of each of its rows
    train,        \* the global train: the rows of the file it holds, its index
    holdout,      \* the global holdout, likewise
    loads,        \* history: what the calls of get_training_data returned
    preprocessing,\* the preprocessing function of the running call
    good_columns, \* the rows the list good_columns was derived from
    learned_from, \* history: the rows the fold's preprocessing learned from
    \* Class Probabilities notebook
    base_estimator,\* the default base_estimator object of FourResolutions
    \* the feature-engineering functions
    frames,       \* the frames a feature function is applied to
    engineered    \* what it returned for each of them

harness_vars == <<fn, fold, test_folds, sklearn_model, model, oof_preds,
                  test_preds, scores, oof_writes, fold_test, ret, calls>>
world_vars == <<nb, target, mt0, lnl_prunes>>
stack_vars == <<kfold, cell, used_valid, oof_preds_df, test_preds_df>>
fe_vars == <<file, train, holdout, loads, preprocessing, good_columns, learned_from>>
fr_vars == <<frames, engineered>>

vars == <<pc, world_vars, harness_vars, stack_vars, fe_vars, base_estimator,
          fr_vars>>

(* --------------------------- the data frames --------------------------- *)
\* the single binary feature column of the model's frames
Feature(r) == r % 2
TestFeature(t) == t % 2

ClassRows(y, k) == {r \in Rows : y[r] = k}

\* the labelings of the rows the sessions are run on: alternating labels,
\* two blocks, and pairs of equal labels, each starting with either class;
\* on each, every fold has both classes among its validation rows
\* (roc_auc_score raises on a single-class fold)
Targets ==
    LET labelings ==
            {[r \in Rows |-> (r + k) % 2] : k \in {0, 1}}
            \cup {[r \in Rows |-> IF 2 * r <= NTrain THEN k ELSE 1 - k] :
                    k \in {0, 1}}
            \cup {[r \in Rows |-> ((r \div 2) + k) % 2] : k \in {0, 1}}
    IN  {y \in labelings :
            \A k \in {0, 1} : Cardinality(ClassRows(y, k)) >= NUM_FOLDS}

\* a random stream is a periodic sequence of random bits
Streams == [1..StreamLen -> {0, 1}]

(* ---------------------------- random state ----------------------------- *)
\* the k-th draw (k >= 1) of a stream
Draw(stream, k) == stream[((k - 1) % StreamLen) + 1]

RECURSIVE ShuffleFrom(_, _, _, _)
\* RandomState.shuffle: for i from the last position down to the second,
\* swap position i with a drawn position j <= i; `used` draws were consumed
ShuffleFrom(stream, s, i, used) ==
    IF i < 2 THEN s
    ELSE LET j == (Draw(stream, used + 1) % i) + 1
         IN  ShuffleFrom(stream, [s EXCEPT ![i] = s[j], ![j] = s[i]],
                         i - 1, used + 1)

Shuffle(stream, s, used) == ShuffleFrom(stream, s, Len(s), used)

\* np.random.RandomState(seed): mt0 is the stream of seed 0, and another
\* seed gives another stream
RandomState(seed) == [i \in 1..StreamLen |-> (mt0[i] + seed) % 2]

(* --------------------------- StratifiedKFold --------------------------- *)
\* the classes of y numbered in the order they first appear (y_encoded)
FirstAt(y, v) == CHOOSE r \in Rows : y[r] = v /\ \A q \in Rows : y[q] = v => r <= q
Encoded(y) ==
    [r \in Rows |->
        Cardinality({f \in {FirstAt(y, y[q]) : q \in Rows} :
                        f < FirstAt(y, y[r])})] @@ <<>>


\* rows of class k that fold i is allotted: bincount(y_order[i::n_splits]),
\* y_order the sorted classes
Allocation(y_order, i, k) ==
    Cardinality({p \in 1..NTrain :
                    (p - 1) % NUM_FOLDS = i /\ y_order[p] = k})

RECURSIVE AllocatedBefore(_, _, _)
AllocatedBefore(y_order, i, k) ==
    IF i = 0 THEN 0
    ELSE AllocatedBefore(y_order, i - 1, k) + Allocation(y_order, i - 1, k)

\* arange(n_splits).repeat(allocation[:, k])
FoldsForClass(y_order, k) ==
    [q \in 1..Cardinality({p \in 1..NTrain : y_order[p] = k}) |->
        CHOOSE i \in Folds :
            /\ AllocatedBefore(y_order, i, k) < q
            /\ q <= AllocatedBefore(y_order, i + 1, k)]

\* position of row r among the rows of its class, in index order
RankInClass(e, r) == Cardinality({q \in Rows : e[q] = e[r] /\ q <= r})

\* draws the shuffles of the classes before k have consumed
RECURSIVE DrawsBefore(_, _)
DrawsBefore(e, k) ==
    IF k = 0 THEN 0
    ELSE DrawsBefore(e, k - 1) +
         (IF Cardinality(ClassRows(e, k - 1)) > 1
          THEN Cardinality(ClassRows(e, k - 1)) - 1 ELSE 0)

\* StratifiedKFold(n_splits = NUM_FOLDS, shuffle = True, random_state =
\* seed).split(train, y): the fold of each row; the folds of each class are
\* shuffled in turn, with the draws that follow those of the class before
StratifiedKFold(stream, y) ==
    LET e == Encoded(y)
        \* np.sort(y_encoded)
        y_order == SortSeq(e, <)
        classes == {e[r] : r \in Rows}
        shuffled == [k \in classes |->
                        Shuffle(stream, FoldsForClass(y_order, k), DrawsBefore(e, k))]
    IN  [r \in Rows |-> shuffled[e[r]][RankInClass(e, r)]]

valid_idx(tf, f) == {r \in Rows : tf[r] = f}
\* every row taken as a training row of the fold
train_idx_all(tf, f) == Rows
train_idx(tf, f) == Rows \ valid_idx(tf, f)

(* ----------------------------- estimators ------------------------------ *)
\* an estimator that was never fitted
Unfitted(params) ==
    [params |-> params, fitted |-> FALSE, rows |-> {}, y |-> <<>>,
     eval_set |-> {}, columns |-> "none"]

\* sklearn.base.clone: a new estimator with the same parameters, unfitted
clone(est) == Unfitted(est.params)

\* est.fit(X, y) on the rows `rows` of the frame, with labels y
Fit(est, rows, y) ==
    [est EXCEPT !.fitted = TRUE, !.rows = rows, !.y = [r \in rows |-> y[r]]]

\* est.fit(X, y, eval_set = [(X_valid, y_valid)], early_stopping_rounds = ...)
FitEval(est, rows, y, valid) == [Fit(est, rows, y) EXCEPT !.eval_set = valid]

\* the estimator is given the columns `columns` of the frames
OnColumns(est, columns) == [est EXCEPT !.columns = columns]

\* the rows in index order
RECURSIVE InOrder(_)
InOrder(S) ==
    IF S = {} THEN <<>>
    ELSE LET m == CHOOSE x \in S : \A y \in S : x <= y
         IN  <<m>> \o InOrder(S \ {m})

\* HistGradientBoostingClassifier(early_stopping = True, validation_fraction
\* = num/den).fit(X, y): the rows are shuffled with the estimator's random
\* state, the first ones are held out for early stopping and the trees are
\* grown on the others
FitHist(est, rows, y, stream, num, den) ==
    LET order == Shuffle(stream, InOrder(rows), 0)
        \* the rows held out: num/den of them, rounded up
        k == (Cardinality(rows) * num + den - 1) \div den
        held == {order[i] : i \in 1..k}
    IN  FitEval(est, rows \ held, y, held)

\* predict_proba(...)[:, 1] for a row whose feature is x: the share of
\* class 1 among the fitted rows with that feature (among all, if none)
predict_proba(est, x) ==
    LET same == {r \in est.rows : Feature(r) = x}
        pool == IF same = {} THEN est.rows ELSE same
    IN  Rat(Cardinality({r \in pool : est.y[r] = 1}), Cardinality(pool))

\* roc_auc_score(y_valid, valid_preds): the share of (positive, negative)
\* pairs of validation rows ranked in order, a tie counting one half
roc_auc_score(y, rows, preds) ==
    LET pos == {r \in rows : y[r] = 1}
        neg == {r \in rows : y[r] = 0}
        won == {p \in pos \X neg : RatLess(preds[p[2]], preds[p[1]])}
        tie == {p \in pos \X neg : preds[p[2]] = preds[p[1]]}
    IN  Rat(2 * Cardinality(won) + Cardinality(tie),
            2 * Cardinality(pos) * Cardinality(neg))


(* ---------------------- feature-engineering functions ------------------- *)
\* A frame is a sequence of rows, a row a record of its columns. Values that
\* are roots are held exactly: the root of q as its radicand q, a sum of
\* roots as its coefficients over the roots of square-free integers, a sine
\* as the angle in -90..90 with that sine, and eps as a formal unit (a + b *
\* eps is the pair <<a, b>>). The casts to float32 are exact on the values of
\* the model's frames.

\* sample rows of the forest cover data (TPS 2021-12)
CoverSamples ==
    <<[Aspect |-> 45, Hillshade_9am |-> 100, Hillshade_Noon |-> 200,
       Hillshade_3pm |-> 150, Horizontal_Distance_To_Hydrology |-> 3,
       Vertical_Distance_To_Hydrology |-> -4, Elevation |-> 10,
       Horizontal_Distance_To_Fire_Points |-> 5,
       Horizontal_Distance_To_Roadways |-> 2,
       Soil_Type1 |-> 1, Soil_Type2 |-> 0,
       Wilderness_Area1 |-> 1, Wilderness_Area2 |-> 0],
      [Aspect |-> 400, Hillshade_9am |-> 260, Hillshade_Noon |-> 250,
       Hillshade_3pm |-> -5, Horizontal_Distance_To_Hydrology |-> 0,
       Vertical_Distance_To_Hydrology |-> 0, Elevation |-> 20,
       Horizontal_Distance_To_Fire_Points |-> 1,
       Horizontal_Distance_To_Roadways |-> 7,
       Soil_Type1 |-> 0, Soil_Type2 |-> 1,
       Wilderness_Area1 |-> 0, Wilderness_Area2 |-> 0],
      [Aspect |-> 200, Hillshade_9am |-> 0, Hillshade_Noon |-> 120,
       Hillshade_3pm |-> 255, Horizontal_Distance_To_Hydrology |-> 6,
       Vertical_Distance_To_Hydrology |-> 2, Elevation |-> 15,
       Horizontal_Distance_To_Fire_Points |-> 0,
       Horizontal_Distance_To_Roadways |-> 1,
       Soil_Type1 |-> 1, Soil_Type2 |-> 1,
       Wilderness_Area1 |-> 0, Wilderness_Area2 |-> 1]>>

\* sample rows of the TPS 2021-10 data: two int (binary) columns, three
\* float columns
StatSamples ==
    <<[b1 |-> 0, b2 |-> 1, c1 |-> 0, c2 |-> 1, c3 |-> 3],
      [b1 |-> 1, b2 |-> 1, c1 |-> 2, c2 |-> 3, c3 |-> 4],
      [b1 |-> 1, b2 |-> 0, c1 |-> 1, c2 |-> 0, c3 |-> 0]>>
\* the columns of a frame whose dtype is int (kfold among them, where the
\* frame has it), and the others
cat_cols(data) ==
    SelectSeq(<<"kfold", "b1", "b2">>, LAMBDA c : c \in DOMAIN data[1])
cont_cols(data) ==
    SelectSeq(<<"c1", "c2", "c3">>, LAMBDA c : c \in DOMAIN data[1])

\* the row at position r of a frame that repeats the samples
SampleRow(samples, r) == samples[(r % Len(samples)) + 1]

Min(S) == CHOOSE x \in S : \A y \in S : x <= y
Max(S) == CHOOSE x \in S : \A y \in S : x >= y
Sign(x) == IF x > 0 THEN 1 ELSE IF x < 0 THEN -1 ELSE 0
RECURSIVE SumSeq(_)
SumSeq(s) == IF s = <<>> THEN 0 ELSE Head(s) + SumSeq(Tail(s))
Column(data, col) == [i \in DOMAIN data |-> data[i][col]]
Values(s) == {s[i] : i \in DOMAIN s}
\* the values a row has in the columns cols
RowValues(row, cols) == [i \in DOMAIN cols |-> row[cols[i]]]

\* .median(axis = 1) of the values s
Median(s) ==
    LET o == SortSeq(s, <)
        n == Len(s)
    IN  IF n % 2 = 1 THEN Rat(o[(n + 1) \div 2], 1)
        ELSE Rat(o[n \div 2] + o[n \div 2 + 1], 2)

\* .std(axis = 1): the root of the sample variance, held as its radicand
Std(s) ==
    LET n == Len(s)
    IN  Rat(n * SumSeq([i \in DOMAIN s |-> s[i] * s[i]]) - SumSeq(s) * SumSeq(s),
            n * (n - 1))

\* .skew(axis = 1): sqrt(n (n - 1)) / (n - 2) * m3 / m2 ^ 1.5, held as its
\* sign and its square; 0 when the values are all equal
Skew(s) ==
    LET n == Len(s)
        d == [i \in DOMAIN s |-> n * s[i] - SumSeq(s)]
        M2 == SumSeq([i \in DOMAIN s |-> d[i] * d[i]])
        M3 == SumSeq([i \in DOMAIN s |-> d[i] * d[i] * d[i]])
    IN  IF M2 = 0 THEN <<0, Zero>>
        ELSE <<Sign(M3),
               Rat(n * n * (n - 1) * M3 * M3, (n - 2) * (n - 2) * M2 * M2 * M2)>>

\* stats.median_abs_deviation(..., axis = 1)
MedianAbsDev(s) ==
    LET m == Median(s)
        \* |x - m| with m = m[1] / m[2], on the denominator m[2]
        dev == [i \in DOMAIN s |-> Abs(s[i] * m[2] - m[1])]
        md == Median(dev)
    IN  Rat(md[1], md[2] * m[2])

\* the largest k with k * k dividing n >= 1
SquarePart(n) == Max({k \in 1..n : k * k <= n /\ n % (k * k) = 0})

\* |stats.zscore(column)| at position i: |x - mean| / std over the rows of
\* the frame (axis = 0, ddof = 0), as the rational under the root; nan when
\* the column is constant
ZScoreSquared(col, i) ==
    LET N == Len(col)
        S == SumSeq(col)
        v == N * SumSeq([j \in DOMAIN col |-> col[j] * col[j]]) - S * S
    IN  IF v = 0 THEN [nan |-> TRUE, q |-> Zero]
        ELSE [nan |-> FALSE, q |-> Rat((N * col[i] - S) * (N * col[i] - S), v)]

\* the sum of the roots of the rationals qs: for each square-free s the
\* coefficient of sqrt(s); sqrt(n / d) = k / d * sqrt(s) with n * d = k * k * s
SumOfRoots(qs) ==
    LET term(q) == LET k == SquarePart(q[1] * q[2])
                   IN  [s |-> (q[1] * q[2]) \div (k * k), c |-> Rat(k, q[2])]
        nz == {i \in DOMAIN qs : qs[i][1] # 0}
        keys == {term(qs[i]).s : i \in nz}
    IN  {<<s, RatSum([i \in nz |-> term(qs[i]).c],
                     {i \in nz : term(qs[i]).s = s})>> : s \in keys}

\* def create_row_stats(data): new_data = data.copy() and the new columns
create_row_stats(data) ==
    [i \in DOMAIN data |->
        LET cat == RowValues(data[i], cat_cols(data))
            cont == RowValues(data[i], cont_cols(data))
            \* stats.zscore(data[cont_cols]) at row i, column by column
            z == [c \in DOMAIN cont_cols(data) |->
                    ZScoreSquared(Column(data, cont_cols(data)[c]), i)]
        IN  [binary_count |-> SumSeq(cat),
             binary_std |-> Std(cat),
             min |-> Min(Values(cont)),
             std |-> Std(cont),
             max |-> Max(Values(cont)),
             median |-> Median(cont),
             mean |-> Rat(SumSeq(cont), Len(cont)),
             skew |-> Skew(cont),
             median_abs_dev |-> MedianAbsDev(cont),
             \* (np.abs(stats.zscore(...))).sum(axis = 1)
             zscore |-> IF \E c \in DOMAIN z : z[c].nan
                        THEN [nan |-> TRUE, roots |-> {}]
                        ELSE [nan |-> FALSE,
                              roots |-> SumOfRoots([c \in DOMAIN z |-> z[c].q])]]
        @@ data[i]]

\* def aspect_features(data)
aspect_features(data) ==
    [i \in DOMAIN data |->
        LET Aspect == data[i].Aspect
            \* the angle in -90..90 whose sine is the sine of a degrees
            Sine(a) == LET m == a % 360
                       IN  IF m <= 90 THEN m
                           ELSE IF m <= 270 THEN 180 - m ELSE m - 360
        IN  [Aspect_360 |-> Aspect % 360,
             Aspect_Sine |-> Sine(Aspect),
             Aspect_Alt |-> IF Aspect + 180 > 360 THEN Aspect - 180
                            ELSE Aspect + 180] @@ data[i]]

\* series.clip(lower = lo, upper = hi) at one value
Clip(x, lo, hi) == IF x < lo THEN lo ELSE IF x > hi THEN hi ELSE x

\* def hillshade_features(data)
hillshade_features(data) ==
    [i \in DOMAIN data |->
        LET shade == <<data[i].Hillshade_9am, data[i].Hillshade_Noon,
                       data[i].Hillshade_3pm>>
        IN  [Hillshade_9am_Clipped |-> Clip(data[i].Hillshade_9am, 0, 255),
             Hillshade_Noon_Clipped |-> Clip(data[i].Hillshade_9am, 0, 255),
             Hillshade_3pm_Clipped |-> Clip(data[i].Hillshade_9am, 0, 255),
             Hillshade_Sum |-> SumSeq(shade),
             Hillshade_Range |-> Max(Values(shade)) - Min(Values(shade))]
            @@ data[i]]

\* def start_at_eps(series, eps = 1e-10): series - series.min() + eps
start_at_eps(series) ==
    [i \in DOMAIN series |-> <<series[i] - Min(Values(series)), 1>>]

\* (a + b eps) ** 2 + (c + d eps) ** 2, by the powers of eps
SumOfSquares(x, y) ==
    <<x[1] * x[1] + y[1] * y[1], 2 * (x[1] * x[2] + y[1] * y[2]),
      x[2] * x[2] + y[2] * y[2]>>

\* def water_features(data)
water_features(data) ==
    LET pos_h_hydrology ==
            start_at_eps(Column(data, "Horizontal_Distance_To_Hydrology"))
        pos_v_hydrology ==
            start_at_eps(Column(data, "Vertical_Distance_To_Hydrology"))
    IN  [i \in DOMAIN data |->
            LET h == data[i].Horizontal_Distance_To_Hydrology
                v == data[i].Vertical_Distance_To_Hydrology
            IN  [Hydro_Taxicab |-> Abs(h) + Abs(v),
                 Hydro_Taxicab_Pos |->
                    SumOfSquares(pos_h_hydrology[i], pos_v_hydrology[i]),
                 Hydro_Euclid |-> h * h + Abs(v) * Abs(v),
                 Hydro_Euclid_Pos |->
                    SumOfSquares(pos_h_hydrology[i], pos_v_hydrology[i]),
                 Water_Direction |-> Sign(v),
                 Water_Elevation |-> data[i].Elevation - v] @@ data[i]]

\* def count_features(data)
count_features(data) ==
    [i \in DOMAIN data |->
        [Soil_Count |-> data[i].Soil_Type1 + data[i].Soil_Type2,
         Wilderness_Count |-> data[i].Wilderness_Area1 + data[i].Wilderness_Area2]
        @@ data[i]]

\* def hydrofire_interactions(data)
hydrofire_interactions(data) ==
    LET eps_h == start_at_eps(Column(data, "Horizontal_Distance_To_Hydrology"))
        eps_f == start_at_eps(Column(data, "Horizontal_Distance_To_Fire_Points"))
    IN  [i \in DOMAIN data |->
            LET h == data[i].Horizontal_Distance_To_Hydrology
                f == data[i].Horizontal_Distance_To_Fire_Points
            IN  [Hydro_Fire_Sum |-> h + f,
                 Hydro_Fire_AbsDiff |-> Abs(h - f),
                 Hydro_Fire_EpsSum |->
                    <<eps_h[i][1] + eps_f[i][1], eps_h[i][2] + eps_f[i][2]>>,
                 Hydro_Fire_Diff |-> h - f] @@ data[i]]

\* def roadway_interactions(data)
roadway_interactions(data) ==
    [i \in DOMAIN data |->
        LET h == data[i].Horizontal_Distance_To_Hydrology
            f == data[i].Horizontal_Distance_To_Fire_Points
            r == data[i].Horizontal_Distance_To_Roadways
        IN  [Hydro_Road_1 |-> Abs(h + r), Hydro_Road_2 |-> Abs(h - r),
             Fire_Road_1 |-> Abs(f + r), Fire_Road_2 |-> Abs(f - r)] @@ data[i]]

\* def elevation_interactions(data)
elevation_interactions(data) ==
    [i \in DOMAIN data |->
        LET e == data[i].Elevation
            v == data[i].Vertical_Distance_To_Hydrology
            h == data[i].Horizontal_Distance_To_Hydrology
            r == data[i].Horizontal_Distance_To_Roadways
        IN  [Road_Elev_Int |-> r * e,
             VHydro_Elev_Int |-> v * e,
             Elev_VHydro_Diff |-> e - v,
             Elev_HHydro_Diff |-> Rat(5 * e - h, 5)] @@ data[i]]

(* ------------------------- the harness, shared -------------------------- *)
None == "none"

\* the names of the scoring functions of the notebooks
FnNames ==
    {"train_model", "train_noisy_model", "score_model", "score_features",
     "score_lightgbm", "score_histgbm",
     "train_xgboost", "train_lightgbm", "train_catboost", "train_histgbm",
     "stack_lightgbm", "stack_xgboost"}

\* model = clone(est): a new object; `shared` tells whether the name is
\* bound to the object passed in
NewClone(est) == [shared |-> FALSE, est |-> clone(est)]

\* np.zeros(...) of the result arrays, and the histories emptied
ZeroArrays ==
    /\ oof_preds' = [r \in Rows |-> Zero]
    /\ test_preds' = [t \in TestRows |-> Zero]
    /\ scores' = [f \in Folds |-> Zero]
    /\ oof_writes' = [r \in Rows |-> <<>>]
    /\ fold_test' = [f \in Folds |-> <<>>]

\* oof_preds[valid_idx] = valid_preds, with the write recorded
WriteOof(rows, preds, est) ==
    /\ oof_preds' = [r \in Rows |-> IF r \in rows THEN preds[r] ELSE oof_preds[r]]
    /\ oof_writes' =
        [r \in Rows |->
            IF r \in rows
            THEN Append(oof_writes[r],
                        [fold |-> fold, est |-> est, value |-> preds[r]])
            ELSE oof_writes[r]]

\* test_preds += p, the division left out
AddTestProba_sum(p) ==
    /\ test_preds' = [t \in TestRows |-> RatAdd(test_preds[t], p[t])]
    /\ fold_test' = [fold_test EXCEPT ![fold] = p]

\* test_preds += p / NUM_FOLDS, p the fold's predictions for the test rows
AddTestProba(p) ==
    /\ test_preds' =
        [t \in TestRows |-> RatAdd(test_preds[t], RatDivInt(p[t], NUM_FOLDS))]
    /\ fold_test' = [fold_test EXCEPT ![fold] = p]

\* test_preds += model.predict_proba(X_test)[:, 1] / NUM_FOLDS
AddTestPreds(est) ==
    AddTestProba([t \in TestRows |-> predict_proba(est, TestFeature(t))])

\* the object `made` is fitted: the name model is bound to it, and the
\* object passed in is the one fitted when the two are the same object
Bind(made, fitted) ==
    /\ model' = fitted
    /\ sklearn_model' = IF made.shared THEN fitted ELSE sklearn_model

\* what a call of a scoring function leaves behind: the returned arrays and
\* the history of the call
Returned ==
    [scores |-> scores, test_preds |-> test_preds, oof_preds |-> oof_preds,
     test_folds |-> test_folds, oof_writes |-> oof_writes,
     fold_test |-> fold_test]

\* the return of the scoring function f, once its fold loop has finished:
\* the results are handed to the caller and the locals of the call are gone
Return(f) ==
    /\ nb \in {"noisy", "baselines"}
    /\ pc = "loop" /\ fn = f /\ fold = NUM_FOLDS
    /\ ret' = [ret EXCEPT ![f] = @ \cup {Returned}]
    /\ pc' = "idle" /\ fn' = None /\ fold' = 0
    /\ ZeroArrays
    /\ test_folds' = [r \in Rows |-> -1]
    /\ model' = Unfitted(None)
    /\ UNCHANGED <<world_vars, sklearn_model, calls, stack_vars, fe_vars,
                   base_estimator, fr_vars>>

\* the state of the harness before any call
InitHarness ==
    /\ fn = None /\ fold = 0 /\ calls = 0
    /\ test_folds = [r \in Rows |-> -1]
    /\ model = Unfitted(None)
    /\ oof_preds = [r \in Rows |-> Zero]
    /\ test_preds = [t \in TestRows |-> Zero]
    /\ scores = [f \in Folds |-> Zero]
    /\ oof_writes = [r \in Rows |-> <<>>]
    /\ fold_test = [f \in Folds |-> <<>>]
    /\ ret = [f \in FnNames |-> {}]

\* the variables of the other notebooks, which a session leaves alone
NoStacking ==
    /\ kfold = [r \in Rows |-> -1]
    /\ cell = 0
    /\ used_valid = {}
    /\ oof_preds_df = [kfold |-> [r \in Rows |-> -1], columns |-> <<>>]
    /\ test_preds_df = [columns |-> <<>>]
NoFeatureEngineering ==
    /\ file = <<>>
    /\ train = [rows |-> <<>>, index |-> <<>>]
    /\ holdout = [rows |-> <<>>, index |-> <<>>]
    /\ loads = {}
    /\ preprocessing = None
    /\ good_columns = {}
    /\ learned_from = {}
NoFrames ==
    /\ frames = [kind |-> None, train |-> <<>>, test |-> <<>>]
    /\ engineered = [train |-> <<>>, test |-> <<>>]

(* ------------- Notebook 2 (2021-11): Handling Noisy Labels -------------- *)
\* skf.split(train, train['target']) of train_model
Split_train_model == StratifiedKFold(RandomState(RANDOM_SEED), target)

\* model = sklearn_model, the clone left out
Model_train_model_same(est) == [shared |-> TRUE, est |-> est]

\* model = clone(sklearn_model)
Model_train_model(est) == NewClone(est)

\* def train_model(sklearn_model): up to the first fold
Call_train_model ==
    /\ nb = "noisy" /\ pc = "idle"
    /\ fn' = "train_model" /\ pc' = "loop" /\ fold' = 0
    /\ ZeroArrays
    /\ test_folds' = Split_train_model
    /\ UNCHANGED <<world_vars, sklearn_model, model, ret, calls, stack_vars,
                   fe_vars, base_estimator, fr_vars>>

\* one pass of the fold loop of train_model
Fold_train_model ==
    /\ nb = "noisy" /\ pc = "loop" /\ fn = "train_model" /\ fold < NUM_FOLDS
    /\ LET X_train == train_idx(test_folds, fold)
           X_valid == valid_idx(test_folds, fold)
           made == Model_train_model(sklearn_model)
           m == Fit(made.est, X_train, target)
           valid_preds == [r \in X_valid |-> predict_proba(m, Feature(r))]
       IN  /\ Bind(made, m)
           /\ AddTestPreds(m)
           /\ WriteOof(X_valid, valid_preds, m)
           /\ scores' = [scores EXCEPT
                            ![fold] = roc_auc_score(target, X_valid, valid_preds)]
    /\ fold' = fold + 1
    /\ UNCHANGED <<pc, world_vars, fn, test_folds, ret, calls, stack_vars,
                   fe_vars, base_estimator, fr_vars>>

\* cleanlab's pruning: the rows whose label is not the label of most fitted
\* rows with the same feature are dropped before the wrapped estimator is
\* fitted (none when the wrapper delegates fit unchanged)
Pruned(rows, y) ==
    IF ~lnl_prunes THEN rows
    ELSE {r \in rows :
            LET same == {q \in rows : Feature(q) = Feature(r)}
                agree == {q \in same : y[q] = y[r]}
            IN  2 * Cardinality(agree) >= Cardinality(same)}

\* LearningWithNoisyLabels(clf = est).fit(X, y); predict_proba is clf's
FitNoisy(est, rows, y) == Fit(est, Pruned(rows, y), y)

\* the split of a StratifiedKFold given another seed
Split_train_noisy_model_reseeded ==
    StratifiedKFold(RandomState(RANDOM_SEED + 1), target)

\* skf.split(train, train['target']) of train_noisy_model
Split_train_noisy_model == StratifiedKFold(RandomState(RANDOM_SEED), target)

\* def train_noisy_model(sklearn_model): up to the first fold
Call_train_noisy_model ==
    /\ nb = "noisy" /\ pc = "idle"
    /\ fn' = "train_noisy_model" /\ pc' = "loop" /\ fold' = 0
    /\ ZeroArrays
    /\ test_folds' = Split_train_noisy_model
    /\ UNCHANGED <<world_vars, sklearn_model, model, ret, calls, stack_vars,
                   fe_vars, base_estimator, fr_vars>>

\* one pass of the fold loop of train_noisy_model
Fold_train_noisy_model ==
    /\ nb = "noisy" /\ pc = "loop" /\ fn = "train_noisy_model" /\ fold < NUM_FOLDS
    /\ LET X_train == train_idx(test_folds, fold)
           X_valid == valid_idx(test_folds, fold)
           \* model = LearningWithNoisyLabels(clf = clone(sklearn_model))
           made == NewClone(sklearn_model)
           m == FitNoisy(made.est, X_train, target)
           valid_preds == [r \in X_valid |-> predict_proba(m, Feature(r))]
       IN  /\ Bind(made, m)
           /\ AddTestPreds(m)
           /\ WriteOof(X_valid, valid_preds, m)
           /\ scores' = [scores EXCEPT
                            ![fold] = roc_auc_score(target, X_valid, valid_preds)]
    /\ fold' = fold + 1
    /\ UNCHANGED <<pc, world_vars, fn, test_folds, ret, calls, stack_vars,
                   fe_vars, base_estimator, fr_vars>>

InitNoisy ==
    /\ nb = "noisy" /\ pc = "idle"
    /\ target \in Targets
    /\ mt0 \in Streams
    /\ lnl_prunes \in BOOLEAN
    /\ sklearn_model = Unfitted("pipeline")
    /\ base_estimator = Unfitted("ExtraTreesClassifier")
    /\ InitHarness /\ NoStacking /\ NoFeatureEngineering /\ NoFrames

NextNoisy ==
    \/ Call_train_model
    \/ Fold_train_model
    \/ Return("train_model")
    \/ Call_train_noisy_model
    \/ Fold_train_noisy_model
    \/ Return("train_noisy_model")

SpecNoisy == InitNoisy /\ [][NextNoisy]_vars

(* ------------------ Stacking notebook (TPS 2021-10) --------------------- *)
\* the columns the cells add to oof_preds and test_preds
ColumnNames ==
    {"XGBoost", "XGB_Hist", "XGB_Stats", "LightGBM", "LGBM_Stats", "CatBoost",
     "Cat_Stats", "HistGBM", "Hist_Stats"}

\* the cells that call a trainer or a stacker, in the order of the notebook
Cells ==
    <<[fn |-> "train_xgboost", new_features |-> FALSE, column |-> "XGBoost"],
      [fn |-> "train_xgboost", new_features |-> FALSE, column |-> "XGB_Hist"],
      [fn |-> "train_xgboost", new_features |-> TRUE, column |-> "XGB_Stats"],
      [fn |-> "train_lightgbm", new_features |-> FALSE, column |-> "LightGBM"],
      [fn |-> "train_lightgbm", new_features |-> TRUE, column |-> "LGBM_Stats"],
      [fn |-> "train_catboost", new_features |-> FALSE, column |-> "CatBoost"],
      [fn |-> "train_catboost", new_features |-> TRUE, column |-> "Cat_Stats"],
      [fn |-> "train_histgbm", new_features |-> FALSE, column |-> "HistGBM"],
      [fn |-> "train_histgbm", new_features |-> TRUE, column |-> "Hist_Stats"],
      [fn |-> "stack_lightgbm", new_features |-> FALSE, column |-> None],
      [fn |-> "stack_xgboost", new_features |-> FALSE, column |-> None]>>

\* the cell about to run: cell 0 assigns the folds, cell 1 adds the row
\* statistics, cell 1 + i is Cells[i]
AtCell(f) ==
    /\ nb = "stack" /\ pc = "idle"
    /\ cell - 1 \in DOMAIN Cells
    /\ Cells[cell - 1].fn = f

\* train['kfold'] = -1; skf = StratifiedKFold(..., random_state = RANDOM_SEED)
Cell_kfold ==
    /\ nb = "stack" /\ pc = "idle" /\ cell = 0
    /\ kfold' = [r \in Rows |-> -1]
    /\ test_folds' = StratifiedKFold(RandomState(RANDOM_SEED), target)
    /\ pc' = "assign" /\ fold' = 0
    /\ UNCHANGED <<world_vars, fn, sklearn_model, model, oof_preds, test_preds,
                   scores, oof_writes, fold_test, ret, calls, cell, used_valid,
                   oof_preds_df, test_preds_df, fe_vars, base_estimator, fr_vars>>

\* the assignment made with the other half of the split:
\* train['kfold'].iloc[train_idx] = fold
Assign_kfold_train_idx ==
    /\ nb = "stack" /\ pc = "assign" /\ fold < NUM_FOLDS
    /\ kfold' = [r \in Rows |->
                    IF r \in train_idx(test_folds, fold) THEN fold ELSE kfold[r]]
    /\ fold' = fold + 1
    /\ UNCHANGED <<pc, world_vars, fn, test_folds, sklearn_model, model,
                   oof_preds, test_preds, scores, oof_writes, fold_test, ret,
                   calls, cell, used_valid, oof_preds_df, test_preds_df,
                   fe_vars, base_estimator, fr_vars>>

\* train['kfold'].iloc[valid_idx] = fold (the assignment reaches the frame
\* under pandas 1, the version the notebook ran on)
Assign_kfold ==
    /\ nb = "stack" /\ pc = "assign" /\ fold < NUM_FOLDS
    /\ kfold' = [r \in Rows |->
                    IF r \in valid_idx(test_folds, fold) THEN fold ELSE kfold[r]]
    /\ fold' = fold + 1
    /\ UNCHANGED <<pc, world_vars, fn, test_folds, sklearn_model, model,
                   oof_preds, test_preds, scores, oof_writes, fold_test, ret,
                   calls, cell, used_valid, oof_preds_df, test_preds_df,
                   fe_vars, base_estimator, fr_vars>>

\* oof_preds = pd.DataFrame(data = dict(kfold = train['kfold'])); test_preds
Frames_kfold ==
    /\ nb = "stack" /\ pc = "assign" /\ fold = NUM_FOLDS
    /\ oof_preds_df' = [kfold |-> kfold, columns |-> [c \in ColumnNames |-> <<>>]]
    /\ test_preds_df' = [columns |-> [c \in ColumnNames |-> <<>>]]
    /\ pc' = "idle" /\ cell' = 1
    /\ UNCHANGED <<world_vars, harness_vars, kfold, used_valid, fe_vars,
                   base_estimator, fr_vars>>

\* the kfold column put back against the reversed index
WithKfold_reversed(data, kf) ==
    [r \in DOMAIN data |-> [kfold |-> kf[Len(data) + 1 - r]] @@ data[r]]

\* the frame train with its kfold column
WithKfold(data, kf) == [r \in DOMAIN data |-> [kfold |-> kf[r]] @@ data[r]]

\* train = create_row_stats(train); test = create_row_stats(test)
Cell_create_row_stats ==
    /\ nb = "stack" /\ pc = "idle" /\ cell = 1
    /\ LET new_train == create_row_stats(WithKfold(frames.train, kfold))
       IN  /\ engineered' = [train |-> new_train,
                             test |-> create_row_stats(frames.test)]
           /\ kfold' = Column(new_train, "kfold")
    /\ cell' = 2
    /\ UNCHANGED <<pc, world_vars, harness_vars, used_valid, oof_preds_df,
                   test_preds_df, fe_vars, base_estimator, frames>>

\* the feature list a trainer reads: features when new_features is set,
\* all_features otherwise
FeatureList(new_features) == IF new_features THEN "features" ELSE "all_features"

\* def train_...(model_params, fit_params, new_features): up to the loop
CallTrainer(f) ==
    /\ AtCell(f)
    /\ fn' = f /\ pc' = "loop" /\ fold' = 0
    /\ ZeroArrays
    /\ UNCHANGED <<world_vars, test_folds, sklearn_model, model, ret, calls,
                   stack_vars, fe_vars, base_estimator, fr_vars>>

\* the end of a pass of a trainer's loop with the fitted model m:
\* valid_preds, test_preds += ... / NUM_FOLDS, oof_preds[train.kfold == fold]
FoldOfTrainer(f, X_valid, m) ==
    LET valid_preds == [r \in X_valid |-> predict_proba(m, Feature(r))]
    IN  /\ model' = m
        /\ AddTestPreds(m)
        /\ WriteOof(X_valid, valid_preds, m)
        /\ scores' = [scores EXCEPT
                        ![fold] = roc_auc_score(target, X_valid, valid_preds)]
        /\ used_valid' = used_valid \cup
                {[fn |-> f, fold |-> fold, X |-> X_valid, y |-> X_valid]}
        /\ fold' = fold + 1
        /\ UNCHANGED <<pc, world_vars, fn, test_folds, sklearn_model, ret, calls,
                       kfold, cell, oof_preds_df, test_preds_df, fe_vars,
                       base_estimator, fr_vars>>

\* one pass of the loop of train_xgboost
Fold_train_xgboost ==
    /\ nb = "stack" /\ pc = "loop" /\ fn = "train_xgboost" /\ fold < NUM_FOLDS
    /\ LET X_train == {r \in Rows : kfold[r] # fold}
           X_valid == {r \in Rows : kfold[r] = fold}
           made == OnColumns(Unfitted("XGBClassifier"),
                             FeatureList(Cells[cell - 1].new_features))
       IN  FoldOfTrainer("train_xgboost", X_valid,
                         FitEval(made, X_train, target, X_valid))

\* one pass of the loop of train_lightgbm
Fold_train_lightgbm ==
    /\ nb = "stack" /\ pc = "loop" /\ fn = "train_lightgbm" /\ fold < NUM_FOLDS
    /\ LET X_train == {r \in Rows : kfold[r] # fold}
           X_valid == {r \in Rows : kfold[r] = fold}
           made == OnColumns(Unfitted("LGBMClassifier"),
                             FeatureList(Cells[cell - 1].new_features))
       IN  FoldOfTrainer("train_lightgbm", X_valid,
                         FitEval(made, X_train, target, X_valid))

\* one pass of the loop of train_catboost
Fold_train_catboost ==
    /\ nb = "stack" /\ pc = "loop" /\ fn = "train_catboost" /\ fold < NUM_FOLDS
    /\ LET X_train == {r \in Rows : kfold[r] # fold}
           X_valid == {r \in Rows : kfold[r] = fold}
           made == OnColumns(Unfitted("CatBoostClassifier"),
                             FeatureList(Cells[cell - 1].new_features))
       IN  FoldOfTrainer("train_catboost", X_valid,
                         FitEval(made, X_train, target, X_valid))

\* one pass of the loop of train_histgbm; histgbc_params seeds the model
\* ('random_state': RANDOM_SEED, 'validation_fraction': 0.33)
Fold_train_histgbm ==
    /\ nb = "stack" /\ pc = "loop" /\ fn = "train_histgbm" /\ fold < NUM_FOLDS
    /\ LET X_train == {r \in Rows : kfold[r] # fold}
           X_valid == {r \in Rows : kfold[r] = fold}
           made == OnColumns(Unfitted("HistGradientBoostingClassifier"),
                             FeatureList(Cells[cell - 1].new_features))
       IN  FoldOfTrainer("train_histgbm", X_valid,
                         FitHist(made, X_train, target, RandomState(RANDOM_SEED),
                                 33, 100))

\* test_preds[column], oof_preds[column] = train_...(...)
Store(f) ==
    /\ nb = "stack" /\ pc = "loop" /\ fn = f /\ fold = NUM_FOLDS
    /\ Cells[cell - 1].column # None
    /\ oof_preds_df' = [oof_preds_df EXCEPT
                            !.columns[Cells[cell - 1].column] = oof_preds]
    /\ test_preds_df' = [test_preds_df EXCEPT
                            !.columns[Cells[cell - 1].column] = test_preds]
    /\ ret' = [ret EXCEPT ![f] = @ \cup {Returned}]
    /\ pc' = "idle" /\ cell' = cell + 1
    /\ UNCHANGED <<world_vars, fn, fold, test_folds, sklearn_model, model,
                   oof_preds, test_preds, scores, oof_writes, fold_test, calls,
                   kfold, used_valid, fe_vars, base_estimator, fr_vars>>

\* the row of a frame of predictions, without the columns kfold and id
MetaRow(df, i) == [c \in ColumnNames |-> IF df.columns[c] = <<>> THEN Zero
                                         ELSE df.columns[c][i]]

\* predict_proba(...)[:, 1] of a meta model for the row v of predictions: the
\* share of class 1 among the fitted rows with these predictions
MetaPredict(est, v) ==
    LET same == {r \in est.rows : MetaRow(oof_preds_df, r) = v}
        pool == IF same = {} THEN est.rows ELSE same
    IN  Rat(Cardinality({r \in pool : est.y[r] = 1}), Cardinality(pool))

\* def stack_...(): up to the loop
CallStacker(f) ==
    /\ AtCell(f)
    /\ fn' = f /\ pc' = "loop" /\ fold' = 0
    /\ ZeroArrays
    /\ UNCHANGED <<world_vars, test_folds, sklearn_model, model, ret, calls,
                   stack_vars, fe_vars, base_estimator, fr_vars>>

\* one pass of the loop of a stacker, whose meta model is made as `made`
FoldOfStacker(f, made) ==
    LET X_train == {r \in Rows : oof_preds_df.kfold[r] # fold}
        X_valid == {r \in Rows : oof_preds_df.kfold[r] = fold}
        y_valid == {r \in Rows : kfold[r] = fold}
        m == FitEval(made, X_train, target, X_valid)
        p == [t \in TestRows |-> MetaPredict(m, MetaRow(test_preds_df, t))]
        preds_valid == [r \in X_valid |-> MetaPredict(m, MetaRow(oof_preds_df, r))]
    IN  /\ model' = m
        /\ test_preds' =
             [t \in TestRows |-> RatAdd(test_preds[t], RatDivInt(p[t], NUM_FOLDS))]
        /\ fold_test' = [fold_test EXCEPT ![fold] = p]
        /\ scores' = [scores EXCEPT
                        ![fold] = roc_auc_score(target, y_valid, preds_valid)]
        /\ used_valid' = used_valid \cup
                {[fn |-> f, fold |-> fold, X |-> X_valid, y |-> y_valid]}
        /\ fold' = fold + 1
        /\ UNCHANGED <<pc, world_vars, fn, test_folds, sklearn_model, oof_preds,
                       oof_writes, ret, calls, kfold, cell, oof_preds_df,
                       test_preds_df, fe_vars, base_estimator, fr_vars>>

\* one pass of the loop of stack_lightgbm
Fold_stack_lightgbm ==
    /\ nb = "stack" /\ pc = "loop" /\ fn = "stack_lightgbm" /\ fold < NUM_FOLDS
    /\ FoldOfStacker("stack_lightgbm", Unfitted("LGBMClassifier"))

\* one pass of the loop of stack_xgboost
Fold_stack_xgboost ==
    /\ nb = "stack" /\ pc = "loop" /\ fn = "stack_xgboost" /\ fold < NUM_FOLDS
    /\ FoldOfStacker("stack_xgboost", Unfitted("XGBClassifier"))

\* submission['target'] = stack_...()
Submit(f) ==
    /\ nb = "stack" /\ pc = "loop" /\ fn = f /\ fold = NUM_FOLDS
    /\ Cells[cell - 1].column = None
    /\ ret' = [ret EXCEPT ![f] = @ \cup {Returned}]
    /\ pc' = "idle" /\ cell' = cell + 1
    /\ UNCHANGED <<world_vars, fn, fold, test_folds, sklearn_model, model,
                   oof_preds, test_preds, scores, oof_writes, fold_test, calls,
                   kfold, used_valid, oof_preds_df, test_preds_df, fe_vars,
                   base_estimator, fr_vars>>

InitStacking ==
    /\ nb = "stack" /\ pc = "idle"
    /\ target \in Targets
    /\ mt0 \in Streams
    /\ lnl_prunes = FALSE
    /\ sklearn_model = Unfitted(None)
    /\ base_estimator = Unfitted("ExtraTreesClassifier")
    /\ frames = [kind |-> "stats",
                 train |-> [r \in Rows |-> SampleRow(StatSamples, r)],
                 test |-> [t \in TestRows |-> SampleRow(StatSamples, t + 1)]]
    /\ engineered = [train |-> <<>>, test |-> <<>>]
    /\ InitHarness /\ NoStacking /\ NoFeatureEngineering

NextStacking ==
    \/ Cell_kfold
    \/ Assign_kfold
    \/ Frames_kfold
    \/ Cell_create_row_stats
    \/ CallTrainer("train_xgboost") \/ Fold_train_xgboost \/ Store("train_xgboost")
    \/ CallTrainer("train_lightgbm") \/ Fold_train_lightgbm \/ Store("train_lightgbm")
    \/ CallTrainer("train_catboost") \/ Fold_train_catboost \/ Store("train_catboost")
    \/ CallTrainer("train_histgbm") \/ Fold_train_histgbm \/ Store("train_histgbm")
    \/ CallStacker("stack_lightgbm") \/ Fold_stack_lightgbm \/ Submit("stack_lightgbm")
    \/ CallStacker("stack_xgboost") \/ Fold_stack_xgboost \/ Submit("stack_xgboost")

SpecStacking == InitStacking /\ [][NextStacking]_vars

(* ------------------ Baselines notebook (TPS 2021-10) -------------------- *)
\* def score_lightgbm(): up to the first fold
Call_score_lightgbm ==
    /\ nb = "baselines" /\ pc = "idle" /\ calls < MaxCalls
    /\ fn' = "score_lightgbm" /\ pc' = "loop" /\ fold' = 0
    /\ calls' = calls + 1
    /\ ZeroArrays
    /\ test_folds' = StratifiedKFold(RandomState(0), target)
    /\ UNCHANGED <<world_vars, sklearn_model, model, ret, stack_vars, fe_vars,
                   base_estimator, fr_vars>>

\* the end of a pass of a baseline loop with the fitted model m
FoldOfBaseline(X_valid, m) ==
    LET valid_preds == [r \in X_valid |-> predict_proba(m, Feature(r))]
    IN  /\ model' = m
        /\ scores' = [scores EXCEPT
                        ![fold] = roc_auc_score(target, X_valid, valid_preds)]
        /\ fold' = fold + 1
        /\ UNCHANGED <<pc, world_vars, fn, test_folds, sklearn_model, oof_preds,
                       test_preds, oof_writes, fold_test, ret, calls, stack_vars,
                       fe_vars, base_estimator, fr_vars>>

\* one pass of the fold loop of score_lightgbm:
\* LGBMClassifier(n_estimators = NUM_TREES, random_state = RANDOM_SEED)
Fold_score_lightgbm ==
    /\ nb = "baselines" /\ pc = "loop" /\ fn = "score_lightgbm"
    /\ fold < NUM_FOLDS
    /\ LET X_train == train_idx(test_folds, fold)
           X_valid == valid_idx(test_folds, fold)
       IN  FoldOfBaseline(X_valid,
                FitEval(Unfitted("LGBMClassifier"), X_train, target, X_valid))

\* def score_histgbm(): up to the first fold
Call_score_histgbm ==
    /\ nb = "baselines" /\ pc = "idle" /\ calls < MaxCalls
    /\ fn' = "score_histgbm" /\ pc' = "loop" /\ fold' = 0
    /\ calls' = calls + 1
    /\ ZeroArrays
    /\ test_folds' = StratifiedKFold(RandomState(0), target)
    /\ UNCHANGED <<world_vars, sklearn_model, model, ret, stack_vars, fe_vars,
                   base_estimator, fr_vars>>

\* the random state of the HistGradientBoostingClassifier of score_histgbm:
\* none is passed, so the draws are those of numpy's global state, whatever
\* it holds when fit is called
RandomStates_score_histgbm == Streams

\* one pass of the fold loop of score_histgbm:
\* HistGradientBoostingClassifier(early_stopping = True,
\* validation_fraction = 0.1, ...), no random_state
Fold_score_histgbm ==
    /\ nb = "baselines" /\ pc = "loop" /\ fn = "score_histgbm"
    /\ fold < NUM_FOLDS
    /\ LET X_train == train_idx(test_folds, fold)
           X_valid == valid_idx(test_folds, fold)
       IN  \E random_state \in RandomStates_score_histgbm :
             FoldOfBaseline(X_valid,
                FitHist(Unfitted("HistGradientBoostingClassifier"), X_train,
                        target, random_state, 1, 10))

InitBaselines ==
    /\ nb = "baselines" /\ pc = "idle"
    /\ target \in Targets
    /\ mt0 \in Streams
    /\ lnl_prunes = FALSE
    /\ sklearn_model = Unfitted(None)
    /\ base_estimator = Unfitted("ExtraTreesClassifier")
    /\ InitHarness /\ NoStacking /\ NoFeatureEngineering /\ NoFrames

NextBaselines ==
    \/ Call_score_lightgbm
    \/ Fold_score_lightgbm
    \/ Return("score_lightgbm")
    \/ Call_score_histgbm
    \/ Fold_score_histgbm
    \/ Return("score_histgbm")

SpecBaselines == InitBaselines /\ [][NextBaselines]_vars

(* ------------- Feature Engineering notebook (TPS 2021-10) --------------- *)
\* the rows of train.feather; get_training_data keeps train_size of them
\* (500000 in the notebook) for training and the others as the holdout set
train_size == NTrain
FileRows == 1..(NTrain + NTest)

\* the targets of the file: the classes alternate, or come in two blocks
FileTargets ==
    {[i \in FileRows |-> (i + k) % 2] : k \in {0, 1}} \cup
    {[i \in FileRows |-> IF 2 * i <= NTrain + NTest THEN k ELSE 1 - k] :
        k \in {0, 1}}

\* _approximate_mode: the rows of n_draws each of the two classes gets, in
\* proportion to its count; the row a class is owed beyond the floors goes to
\* the larger remainder, to a drawn class on a tie
ApproximateMode(c0, c1, n_draws, stream) ==
    LET tot == c0 + c1
        f0 == (n_draws * c0) \div tot
        f1 == (n_draws * c1) \div tot
        r0 == (n_draws * c0) % tot
        r1 == (n_draws * c1) % tot
        to0 == IF r0 = r1 THEN Draw(stream, 1) % 2 = 0 ELSE r0 > r1
    IN  IF n_draws - f0 - f1 = 0 THEN [n |-> <<f0, f1>>, used |-> 0]
        ELSE [n |-> IF to0 THEN <<f0 + 1, f1>> ELSE <<f0, f1 + 1>>, used |-> 1]

\* no random_state given: the draws follow those the earlier calls of the
\* session consumed
RandomState_unseeded ==
    RandomState(RANDOM_SEED + Cardinality(ret["score_lightgbm"]))

\* the random state train_test_split is given: random_state = RANDOM_SEED
RandomState_get_training_data == RandomState(RANDOM_SEED)

\* train_test_split(train, train_size = train_size, stratify =
\* train['target'], shuffle = True, random_state = stream): each class is
\* permuted and cut, then the two sides are permuted; a frame keeps the
\* index labels of its rows
train_test_split(y, stream) ==
    LET class(k) == InOrder({i \in FileRows : y[i] = k})
        mode == ApproximateMode(Len(class(0)), Len(class(1)), train_size, stream)
        u0 == mode.used
        p0 == Shuffle(stream, class(0), u0)
        u1 == u0 + Len(p0) - 1
        p1 == Shuffle(stream, class(1), u1)
        u2 == u1 + Len(p1) - 1
        tr == SubSeq(p0, 1, mode.n[1]) \o SubSeq(p1, 1, mode.n[2])
        te == SubSeq(p0, mode.n[1] + 1, Len(p0)) \o
              SubSeq(p1, mode.n[2] + 1, Len(p1))
        trp == Shuffle(stream, tr, u2)
        tep == Shuffle(stream, te, u2 + Len(tr) - 1)
    IN  [train |-> [rows |-> trp, index |-> [i \in DOMAIN trp |-> trp[i] - 1]],
         holdout |-> [rows |-> tep, index |-> [i \in DOMAIN tep |-> tep[i] - 1]]]

\* frame.reset_index(drop = True, inplace = True)
reset_index(frame) == [frame EXCEPT !.index = [i \in DOMAIN frame.rows |-> i - 1]]

\* def get_training_data()
get_training_data ==
    LET split == train_test_split(file, RandomState_get_training_data)
    IN  [train |-> reset_index(split.train),
         holdout |-> reset_index(split.holdout)]

\* train['target'] of a loaded frame, by position
TargetOf(frame) == [p \in DOMAIN frame.rows |-> file[frame.rows[p]]]

\* the cells of the notebook that score, reload or derive good_columns, in
\* the order of the notebook
FeCells ==
    <<None, "good_columns", "feature_selection_importance",
      "remove_uninformative", "row_stats", "get_training_data",
      "target_encode", "cluster_label_features", "cluster_distance_features">>

\* train, holdout = get_training_data(): the cell before target_encode, or
\* the loading cell run again at any point between two scoring calls
Cell_get_training_data ==
    /\ nb = "fe" /\ pc = "idle" /\ cell \in DOMAIN FeCells
    /\ LET data == get_training_data
       IN  /\ train' = data.train
           /\ holdout' = data.holdout
           /\ target' = TargetOf(data.train)
           /\ loads' = loads \cup {data}
    /\ cell' = IF FeCells[cell] = "get_training_data" THEN cell + 1 ELSE cell
    /\ UNCHANGED <<pc, nb, mt0, lnl_prunes, harness_vars, kfold, used_valid,
                   oof_preds_df, test_preds_df, file, preprocessing,
                   good_columns, learned_from, base_estimator, fr_vars>>

\* good_columns: the columns whose model.feature_importances_ is at least 3,
\* model being the third value the last scoring call returned; the list
\* derives from the rows that model was fitted on and from the rows of its
\* eval_set, which stopped its training
Cell_good_columns ==
    /\ nb = "fe" /\ pc = "idle" /\ cell \in DOMAIN FeCells
    /\ FeCells[cell] = "good_columns"
    /\ good_columns' = model.rows \cup model.eval_set
    /\ cell' = cell + 1
    /\ UNCHANGED <<pc, world_vars, harness_vars, kfold, used_valid,
                   oof_preds_df, test_preds_df, file, train, holdout, loads,
                   preprocessing, learned_from, base_estimator, fr_vars>>

\* the rows whose features or target decide what each preprocessing
\* function does to the frames of a fold
\* X_train[good_columns], X_valid[good_columns], X_test[good_columns]
feature_selection_importance(X_train, X_valid, X_test) == good_columns
\* mutual_info_classif(X_train, y_train) picks the columns to drop
remove_uninformative(X_train, X_valid, X_test) == X_train
\* create_row_stats of each frame: its zscore column is taken over the rows
\* of the frame it is given (the holdout row t is written -t)
row_stats(X_train, X_valid, X_test) ==
    X_train \cup X_valid \cup {-t : t \in X_test}
\* encoder.fit_transform(X_train, y_train), encoder.transform of the others
target_encode(X_train, X_valid, X_test) == X_train
\* corr = train.corr() ranks the columns over the global train; the scaler
\* and the k-means are fitted on X_train
cluster_label_features(X_train, X_valid, X_test) == Rows \cup X_train
cluster_distance_features(X_train, X_valid, X_test) == Rows \cup X_train

\* preprocessing(X_train, X_valid, X_test, y_train), or nothing for None
Preprocess(f, X_train, X_valid, X_test) ==
    CASE f = "feature_selection_importance" ->
            feature_selection_importance(X_train, X_valid, X_test)
      [] f = "remove_uninformative" ->
            remove_uninformative(X_train, X_valid, X_test)
      [] f = "row_stats" -> row_stats(X_train, X_valid, X_test)
      [] f = "target_encode" -> target_encode(X_train, X_valid, X_test)
      [] f = "cluster_label_features" ->
            cluster_label_features(X_train, X_valid, X_test)
      [] f = "cluster_distance_features" ->
            cluster_distance_features(X_train, X_valid, X_test)
      [] OTHER -> {}

\* def score_lightgbm(preprocessing = None): up to the first fold
Call_score_lightgbm_preprocessing ==
    /\ nb = "fe" /\ pc = "idle" /\ cell \in DOMAIN FeCells
    /\ FeCells[cell] \notin {"good_columns", "get_training_data"}
    /\ preprocessing' = FeCells[cell]
    /\ fn' = "score_lightgbm" /\ pc' = "loop" /\ fold' = 0
    /\ calls' = calls + 1
    /\ ZeroArrays
    /\ test_folds' = StratifiedKFold(RandomState(0), target)
    /\ learned_from' = {}
    /\ UNCHANGED <<world_vars, sklearn_model, model, ret, stack_vars, file,
                   train, holdout, loads, good_columns, base_estimator,
                   fr_vars>>

\* one pass of the fold loop of score_lightgbm(preprocessing)
Fold_score_lightgbm_preprocessing ==
    /\ nb = "fe" /\ pc = "loop" /\ fn = "score_lightgbm" /\ fold < NUM_FOLDS
    /\ LET X_train == train_idx(test_folds, fold)
           X_valid == valid_idx(test_folds, fold)
           X_test == TestRows
           made == OnColumns(Unfitted("LGBMClassifier"), preprocessing)
           m == FitEval(made, X_train, target, X_valid)
           valid_preds == [r \in X_valid |-> predict_proba(m, Feature(r))]
       IN  /\ learned_from' = Preprocess(preprocessing, X_train, X_valid, X_test)
           /\ model' = m
           /\ AddTestPreds(m)
           /\ scores' = [scores EXCEPT
                            ![fold] = roc_auc_score(target, X_valid, valid_preds)]
    /\ fold' = fold + 1
    /\ UNCHANGED <<pc, world_vars, fn, test_folds, sklearn_model, oof_preds,
                   oof_writes, ret, calls, stack_vars, file, train, holdout,
                   loads, preprocessing, good_columns, base_estimator, fr_vars>>

\* return roc_auc_score(holdout['target'], holdout_preds), ..., model
Return_score_lightgbm_preprocessing ==
    /\ nb = "fe" /\ pc = "loop" /\ fn = "score_lightgbm" /\ fold = NUM_FOLDS
    /\ ret' = [ret EXCEPT !["score_lightgbm"] = @ \cup
                {[Returned EXCEPT
                    !.scores = [f \in Folds |->
                        roc_auc_score(TargetOf(holdout), TestRows, test_preds)]]}]
    /\ pc' = "idle" /\ cell' = cell + 1
    /\ UNCHANGED <<world_vars, fn, fold, test_folds, sklearn_model, model,
                   oof_preds, test_preds, scores, oof_writes, fold_test, calls,
                   kfold, used_valid, oof_preds_df, test_preds_df, fe_vars,
                   base_estimator, fr_vars>>

InitFeatureEngineering ==
    /\ nb = "fe" /\ pc = "idle"
    /\ file \in FileTargets
    /\ mt0 \in Streams
    /\ lnl_prunes = FALSE
    /\ InitHarness /\ NoFrames
    /\ LET data == get_training_data
       IN  /\ train = data.train
           /\ holdout = data.holdout
           /\ target = TargetOf(data.train)
           /\ loads = {data}
    /\ cell = 1
    /\ preprocessing = None /\ good_columns = {} /\ learned_from = {}
    /\ sklearn_model = Unfitted(None)
    /\ base_estimator = Unfitted("ExtraTreesClassifier")
    /\ kfold = [r \in Rows |-> -1]
    /\ used_valid = {}
    /\ oof_preds_df = [kfold |-> [r \in Rows |-> -1], columns |-> <<>>]
    /\ test_preds_df = [columns |-> <<>>]

NextFeatureEngineering ==
    \/ Cell_get_training_data
    \/ Cell_good_columns
    \/ Call_score_lightgbm_preprocessing
    \/ Fold_score_lightgbm_preprocessing
    \/ Return_score_lightgbm_preprocessing

SpecFeatureEngineering ==
    InitFeatureEngineering /\ [][NextFeatureEngineering]_vars

(* ------------- Notebook 8 (2022-02): Class Probabilities ---------------- *)
\* the resolutions of the reads (the gcd column); the frames of the model
\* hold two of the four of the data, and FourResolutions one model for each
Resolutions == 1..2
Resolution(r) == 1 + ((r \div 2) % 2)

\* target_bins = train['target'].astype(str) + train['gcd'].astype(str)
target_bins == [r \in Rows |-> 2 * target[r] + (Resolution(r) - 1)]

\* FourResolutions(): base_estimator is the default object of the class
FourResolutions ==
    [default_base |-> TRUE, base_estimator |-> Unfitted("ExtraTreesClassifier"),
     models |-> <<>>] @@ Unfitted("FourResolutions")

IsFourResolutions(est) == est.params = "FourResolutions"

\* self.base_estimator
BaseEstimator(est) ==
    IF est.default_base THEN base_estimator ELSE est.base_estimator

\* sklearn.base.clone of an estimator: its parameters are cloned with it
CloneDeep(est) ==
    IF IsFourResolutions(est)
    THEN [default_base |-> FALSE, base_estimator |-> clone(BaseEstimator(est)),
          models |-> <<>>] @@ Unfitted("FourResolutions")
    ELSE clone(est)

\* def clone_models(self): self.model1 = clone(self.base_estimator), ...
clone_models(est) == [i \in Resolutions |-> NewClone(BaseEstimator(est))]

\* def fit(self, X, y, sample_weight): each model is fitted on the rows of
\* its resolution
FitFourResolutions(est, rows, y) ==
    LET made == clone_models(est)
    IN  [Fit(est, rows, y) EXCEPT
            !.models = [i \in Resolutions |->
                Fit(made[i].est, {r \in rows : Resolution(r) = i}, y)]]

\* what fitting est leaves in the default base_estimator object
DefaultAfterFit(est, fitted) ==
    IF IsFourResolutions(est) /\ est.default_base
       /\ \E i \in Resolutions : clone_models(est)[i].shared
    THEN fitted.models[CHOOSE i \in Resolutions : clone_models(est)[i].shared]
    ELSE base_estimator

\* model.fit(X_train, y_train, sample_weight = train_weights)
FitModel(est, rows, y) ==
    IF IsFourResolutions(est) THEN FitFourResolutions(est, rows, y)
    ELSE Fit(est, rows, y)

\* model.predict_proba(X)[:, 1] for a row of feature x and resolution res
PredictProba(est, x, res) ==
    IF IsFourResolutions(est) THEN predict_proba(est.models[res], x)
    ELSE predict_proba(est, x)

\* np.argmax over the two classes of a row whose class 1 has probability p
ArgMax(p) == IF RatLess(<<1, 2>>, p) THEN <<1, 1>> ELSE Zero

\* the estimators the cells pass to score_model, in the order of the notebook
Estimators ==
    <<Unfitted("ExtraTreesClassifier"), Unfitted("BaggingClassifier"),
      FourResolutions>>

\* model = clone(sklearn_model)
Model_score_model(est) == [shared |-> FALSE, est |-> CloneDeep(est)]

\* def score_model(sklearn_model): up to the first fold; SKF is seeded with
\* RANDOM_SEED
Call_score_model ==
    /\ nb = "proba" /\ pc = "idle" /\ cell \in DOMAIN Estimators
    /\ sklearn_model' = Estimators[cell]
    /\ fn' = "score_model" /\ pc' = "loop" /\ fold' = 0
    /\ calls' = calls + 1
    /\ ZeroArrays
    /\ test_folds' = StratifiedKFold(RandomState(RANDOM_SEED), target_bins)
    /\ UNCHANGED <<world_vars, model, ret, stack_vars, fe_vars, base_estimator,
                   fr_vars>>

\* one pass of the fold loop of score_model
Fold_score_model ==
    /\ nb = "proba" /\ pc = "loop" /\ fn = "score_model" /\ fold < NUM_FOLDS
    /\ LET X_train == train_idx(test_folds, fold)
           X_valid == valid_idx(test_folds, fold)
           made == Model_score_model(sklearn_model)
           m == FitModel(made.est, X_train, target)
           valid_preds ==
              [r \in X_valid |-> ArgMax(PredictProba(m, Feature(r), Resolution(r)))]
           test_prob ==
              [t \in TestRows |-> PredictProba(m, TestFeature(t), Resolution(t))]
       IN  /\ Bind(made, m)
           /\ base_estimator' = DefaultAfterFit(made.est, m)
           /\ AddTestProba(test_prob)
           /\ WriteOof(X_valid, valid_preds, m)
    /\ fold' = fold + 1
    /\ UNCHANGED <<pc, world_vars, fn, test_folds, scores, ret, calls,
                   stack_vars, fe_vars, fr_vars>>

\* return oof_preds, test_proba
Return_score_model ==
    /\ nb = "proba" /\ pc = "loop" /\ fn = "score_model" /\ fold = NUM_FOLDS
    /\ ret' = [ret EXCEPT !["score_model"] = @ \cup {Returned}]
    /\ pc' = "idle" /\ cell' = cell + 1
    /\ UNCHANGED <<world_vars, fn, fold, test_folds, sklearn_model, model,
                   oof_preds, test_preds, scores, oof_writes, fold_test, calls,
                   kfold, used_valid, oof_preds_df, test_preds_df, fe_vars,
                   base_estimator, fr_vars>>

InitProbabilities ==
    /\ nb = "proba" /\ pc = "idle"
    /\ target \in Targets
    /\ mt0 \in Streams
    /\ lnl_prunes = FALSE
    /\ sklearn_model = Unfitted(None)
    /\ base_estimator = Unfitted("ExtraTreesClassifier")
    /\ cell = 1
    /\ kfold = [r \in Rows |-> -1]
    /\ used_valid = {}
    /\ oof_preds_df = [kfold |-> [r \in Rows |-> -1], columns |-> <<>>]
    /\ test_preds_df = [columns |-> <<>>]
    /\ InitHarness /\ NoFeatureEngineering /\ NoFrames

NextProbabilities ==
    \/ Call_score_model
    \/ Fold_score_model
    \/ Return_score_model

SpecProbabilities == InitProbabilities /\ [][NextProbabilities]_vars

(* ------- Notebook 2b (2021-12): XGBoost Feature Engineering ------------- *)
\* the processing functions the cells pass to score_features, in the order
\* of the notebook
Processings ==
    <<None, "aspect_features", "hillshade_features", "water_features",
      "count_features", "hydrofire_interactions", "roadway_interactions",
      "elevation_interactions">>

\* processing(data), or the frame itself for None
Process(f, data) ==
    CASE f = "aspect_features" -> aspect_features(data)
      [] f = "hillshade_features" -> hillshade_features(data)
      [] f = "water_features" -> water_features(data)
      [] f = "count_features" -> count_features(data)
      [] f = "hydrofire_interactions" -> hydrofire_interactions(data)
      [] f = "roadway_interactions" -> roadway_interactions(data)
      [] f = "elevation_interactions" -> elevation_interactions(data)
      [] OTHER -> data

\* def score_features(sklearn_model, processing): up to the first fold;
\* sklearn_model is xgb_pipeline in every cell
Call_score_features ==
    /\ nb = "cover" /\ pc = "idle" /\ cell \in DOMAIN Processings
    /\ engineered' = [train |-> Process(Processings[cell], frames.train),
                      test |-> Process(Processings[cell], frames.test)]
    /\ fn' = "score_features" /\ pc' = "loop" /\ fold' = 0
    /\ calls' = calls + 1
    /\ ZeroArrays
    /\ test_folds' = StratifiedKFold(RandomState(RANDOM_SEED), target)
    /\ UNCHANGED <<world_vars, sklearn_model, model, ret, stack_vars, fe_vars,
                   base_estimator, frames>>

\* accuracy_score(y, preds) over the rows
accuracy_score(y, rows, preds) ==
    Rat(Cardinality({r \in rows : preds[r] = <<y[r], 1>>}), Cardinality(rows))

\* one pass of the fold loop of score_features
Fold_score_features ==
    /\ nb = "cover" /\ pc = "loop" /\ fn = "score_features" /\ fold < NUM_FOLDS
    /\ LET X_train == train_idx(test_folds, fold)
           X_valid == valid_idx(test_folds, fold)
           \* model = clone(sklearn_model)
           made == NewClone(sklearn_model)
           m == Fit(made.est, X_train, target)
           valid_preds == [r \in X_valid |-> ArgMax(predict_proba(m, Feature(r)))]
           p == [t \in TestRows |-> predict_proba(m, TestFeature(t))]
       IN  /\ Bind(made, m)
           /\ WriteOof(X_valid, valid_preds, m)
           /\ test_preds' = [t \in TestRows |-> RatAdd(test_preds[t], p[t])]
           /\ fold_test' = [fold_test EXCEPT ![fold] = p]
           /\ scores' = [scores EXCEPT
                            ![fold] = accuracy_score(target, X_valid, valid_preds)]
    /\ fold' = fold + 1
    /\ UNCHANGED <<pc, world_vars, fn, test_folds, ret, calls, stack_vars,
                   fe_vars, base_estimator, fr_vars>>

\* test_preds = np.argmax(test_preds, axis = 1);
\* return scores.mean(), oof_preds, test_score, fi_scores
Return_score_features ==
    /\ nb = "cover" /\ pc = "loop" /\ fn = "score_features" /\ fold = NUM_FOLDS
    /\ test_preds' = [t \in TestRows |->
                        ArgMax(RatDivInt(test_preds[t], NUM_FOLDS))]
    /\ ret' = [ret EXCEPT !["score_features"] = @ \cup
                {[Returned EXCEPT !.test_preds = test_preds'] }]
    /\ pc' = "idle" /\ cell' = cell + 1
    /\ UNCHANGED <<world_vars, fn, fold, test_folds, sklearn_model, model,
                   oof_preds, scores, oof_writes, fold_test, calls, kfold,
                   used_valid, oof_preds_df, test_preds_df, fe_vars,
                   base_estimator, fr_vars>>

InitCover ==
    /\ nb = "cover" /\ pc = "idle"
    /\ target \in Targets
    /\ mt0 \in Streams
    /\ lnl_prunes = FALSE
    /\ sklearn_model = Unfitted("xgb_pipeline")
    /\ base_estimator = Unfitted("ExtraTreesClassifier")
    /\ cell = 1
    /\ kfold = [r \in Rows |-> -1]
    /\ used_valid = {}
    /\ oof_preds_df = [kfold |-> [r \in Rows |-> -1], columns |-> <<>>]
    /\ test_preds_df = [columns |-> <<>>]
    /\ frames = [kind |-> "cover",
                 train |-> [r \in Rows |-> SampleRow(CoverSamples, r)],
                 test |-> [t \in TestRows |-> SampleRow(CoverSamples, t + 1)]]
    /\ engineered = [train |-> <<>>, test |-> <<>>]
    /\ InitHarness /\ NoFeatureEngineering

NextCover ==
    \/ Call_score_features
    \/ Fold_score_features
    \/ Return_score_features

SpecCover == InitCover /\ [][NextCover]_vars

(* ---- Notebook 2 (2021-11): predict_proba of the extended classifiers ---- *)
\* A decision value is held as a whole multiple of ln 2 (k stands for
\* k ln 2), on which np.exp is exact: exp(k ln 2) = 2 ^ k.

\* softmax normalised over the whole array, not row by row
softmax_flat(X) ==
    LET exp(k) == IF k >= 0 THEN <<2 ^ k, 1>> ELSE <<1, 2 ^ (-k)>>
        cells == (DOMAIN X) \X {1, 2}
        max_prob == Max({X[c[1]][c[2]] : c \in cells})
        e == [c \in cells |-> exp(X[c[1]][c[2]] - max_prob)]
        sum_prob == RatSum(e, cells)
    IN  [i \in DOMAIN X |->
            [j \in 1..2 |->
                Rat(e[<<i, j>>][1] * sum_prob[2], e[<<i, j>>][2] * sum_prob[1])]]

\* sklearn.utils.extmath.softmax(X): each row has its maximum subtracted,
\* is exponentiated and divided by its sum
softmax(X) ==
    [i \in DOMAIN X |->
        LET \* np.exp(x) at x = k ln 2
            exp(k) == IF k >= 0 THEN <<2 ^ k, 1>> ELSE <<1, 2 ^ (-k)>>
            max_prob == Max(Values(X[i]))
            e == [j \in DOMAIN X[i] |-> exp(X[i][j] - max_prob)]
            sum_prob == RatSum(e, DOMAIN e)
        IN  [j \in DOMAIN e |->
                Rat(e[j][1] * sum_prob[2], e[j][2] * sum_prob[1])]]

\* class ExtendedRidgeClassifier(RidgeClassifier): predict_proba, temp the
\* value of self.decision_function(X)
ExtendedRidgeClassifier_predict_proba(temp) ==
    softmax([i \in DOMAIN temp |-> <<-temp[i], temp[i]>>])

\* class ExtendedSGDClassifier(SGDClassifier): predict_proba
ExtendedSGDClassifier_predict_proba(temp) ==
    softmax([i \in DOMAIN temp |-> <<-temp[i], temp[i]>>])

\* the predict both classes inherit: class 1 where the decision is positive
predict(temp) == [i \in DOMAIN temp |-> IF temp[i] > 0 THEN 1 ELSE 0]

\* model.predict_proba(X) of a fitted classifier of the class cls, with
\* model.predict(X) held next to it
Call_predict_proba(cls) ==
    /\ nb = "softmax" /\ frames.kind = "decision"
    /\ fn' = cls
    /\ engineered' =
        [train |-> IF cls = "ExtendedRidgeClassifier"
                   THEN ExtendedRidgeClassifier_predict_proba(frames.train)
                   ELSE ExtendedSGDClassifier_predict_proba(frames.train),
         test |-> predict(frames.train)]
    /\ UNCHANGED <<pc, world_vars, fold, test_folds, sklearn_model, model,
                   oof_preds, test_preds, scores, oof_writes, fold_test, ret,
                   calls, stack_vars, fe_vars, base_estimator, frames>>

\* a frame of decision values, up to MaxDecision ln 2 either way, for a
\* fitted classifier to predict on
InitSoftmax ==
    /\ nb = "softmax" /\ pc = "idle"
    /\ target = [r \in Rows |-> 0]
    /\ mt0 = [i \in 1..StreamLen |-> 0]
    /\ lnl_prunes = FALSE
    /\ sklearn_model = Unfitted("pipeline")
    /\ base_estimator = Unfitted("ExtraTreesClassifier")
    /\ \E temp \in UNION {[1..n -> (-MaxDecision)..MaxDecision] :
                            n \in 1..MaxFrame} :
            frames = [kind |-> "decision", train |-> temp, test |-> <<>>]
    /\ engineered = [train |-> <<>>, test |-> <<>>]
    /\ InitHarness /\ NoStacking /\ NoFeatureEngineering

NextSoftmax ==
    \/ Call_predict_proba("ExtendedRidgeClassifier")
    \/ Call_predict_proba("ExtendedSGDClassifier")

SpecSoftmax == InitSoftmax /\ [][NextSoftmax]_vars

(* ------- Notebook 8 (2022-02): tweaking the class probabilities --------- *)
\* The rows of test_proba of the model: probability vectors over the ten
\* classes, with all the mass on two of them. The leading two classes are
\* taken among a class before the tweaked ones, the two tweaked ones and a
\* class after them; they are level or 0.02 apart.
ProbaFrames ==
    LET top == {1, 2, 3, 4}
        gaps == {0, 2}
        rows == {[c \in 1..10 |->
                    IF c = a + 1 THEN Rat(100 + g, 200)
                    ELSE IF c = b + 1 THEN Rat(100 - g, 200) ELSE Zero] :
                 <<a, b, g>> \in {t \in top \X top \X gaps : t[1] # t[2]}}
    IN  UNION {[1..n -> rows] : n \in 1..MaxFrame}

\* the arrays added to test_proba, test_proba1 and test_proba2
Offsets ==
    [new_proba |-> <<Zero, Zero, <<1, 100>>, <<3, 100>>, Zero, Zero, Zero,
                     Zero, Zero, Zero>>,
     new_proba1 |-> <<Zero, Zero, <<1, 100>>, <<11, 500>>, Zero, Zero, Zero,
                      Zero, Zero, Zero>>,
     new_proba2 |-> <<Zero, Zero, <<3, 200>>, <<7, 200>>, Zero, Zero, Zero,
                      Zero, Zero, Zero>>]

\* the array taken from each row instead
new_proba_minus(test_proba, offsets) ==
    [t \in DOMAIN test_proba |->
        [c \in DOMAIN offsets |->
            RatAdd(test_proba[t][c], <<-offsets[c][1], offsets[c][2]>>)]]

\* new_proba = test_proba + np.array([...]): the array is added to each row
new_proba(test_proba, offsets) ==
    [t \in DOMAIN test_proba |->
        [c \in DOMAIN offsets |-> RatAdd(test_proba[t][c], offsets[c])]]

\* np.argmax(proba, axis = 1): for each row the first class (from 0) that
\* holds the largest value of the row
argmax(proba) ==
    [t \in DOMAIN proba |->
        (CHOOSE c \in DOMAIN proba[t] :
            /\ \A d \in DOMAIN proba[t] : ~RatLess(proba[t][c], proba[t][d])
            /\ \A d \in 1..(c - 1) : RatLess(proba[t][d], proba[t][c])) - 1]

\* the cell that tweaks the probabilities score_model returned and takes
\* the labels of the submission from them
Cell_new_proba(name) ==
    /\ nb = "tweak" /\ frames.kind = "proba"
    /\ fn' = name
    /\ engineered' =
        [train |-> <<>>,
         test |-> argmax(new_proba(frames.test, Offsets[name]))]
    /\ UNCHANGED <<pc, world_vars, fold, test_folds, sklearn_model, model,
                   oof_preds, test_preds, scores, oof_writes, fold_test, ret,
                   calls, stack_vars, fe_vars, base_estimator, frames>>

InitTweak ==
    /\ nb = "tweak" /\ pc = "idle"
    /\ target = [r \in Rows |-> 0]
    /\ mt0 = [i \in 1..StreamLen |-> 0]
    /\ lnl_prunes = FALSE
    /\ sklearn_model = Unfitted(None)
    /\ base_estimator = Unfitted("ExtraTreesClassifier")
    /\ \E test_proba \in ProbaFrames :
            frames = [kind |-> "proba", train |-> <<>>, test |-> test_proba]
    /\ engineered = [train |-> <<>>, test |-> <<>>]
    /\ InitHarness /\ NoStacking /\ NoFeatureEngineering

NextTweak ==
    \/ Cell_new_proba("new_proba")
    \/ Cell_new_proba("new_proba1")
    \/ Cell_new_proba("new_proba2")

SpecTweak == InitTweak /\ [][NextTweak]_vars

(* --------- the feature-engineering functions, on any two frames --------- *)
\* the frames of at most MaxFrame rows drawn from the samples
FramesOf(samples) ==
    UNION {[1..n -> {samples[i] : i \in DOMAIN samples}] : n \in 1..MaxFrame}

\* create_row_stats(train); create_row_stats(test)
Apply_create_row_stats ==
    /\ nb = "features" /\ frames.kind = "stats"
    /\ fn' = "create_row_stats"
    /\ engineered' = [train |-> create_row_stats(frames.train),
                      test |-> create_row_stats(frames.test)]
    /\ UNCHANGED <<pc, world_vars, fold, test_folds, sklearn_model, model,
                   oof_preds, test_preds, scores, oof_writes, fold_test, ret,
                   calls, stack_vars, fe_vars, base_estimator, frames>>

\* f(train); f(test) for a function f of Notebook 2b
Apply(f) ==
    /\ nb = "features" /\ frames.kind = "cover"
    /\ fn' = f
    /\ engineered' = [train |-> Process(f, frames.train),
                      test |-> Process(f, frames.test)]
    /\ UNCHANGED <<pc, world_vars, fold, test_folds, sklearn_model, model,
                   oof_preds, test_preds, scores, oof_writes, fold_test, ret,
                   calls, stack_vars, fe_vars, base_estimator, frames>>

InitFeatures ==
    /\ nb = "features" /\ pc = "idle"
    /\ target = [r \in Rows |-> 0]
    /\ mt0 = [i \in 1..StreamLen |-> 0]
    /\ lnl_prunes = FALSE
    /\ sklearn_model = Unfitted(None)
    /\ base_estimator = Unfitted("ExtraTreesClassifier")
    /\ \/ \E a, b \in FramesOf(CoverSamples) :
            frames = [kind |-> "cover", train |-> a, test |-> b]
       \/ \E a, b \in FramesOf(StatSamples) :
            frames = [kind |-> "stats", train |-> a, test |-> b]
    /\ engineered = [train |-> <<>>, test |-> <<>>]
    /\ InitHarness /\ NoStacking /\ NoFeatureEngineering

NextFeatures ==
    \/ Apply_create_row_stats
    \/ Apply("aspect_features")
    \/ Apply("hillshade_features")
    \/ Apply("water_features")
    \/ Apply("count_features")
    \/ Apply("hydrofire_interactions")
    \/ Apply("roadway_interactions")
    \/ Apply("elevation_interactions")

SpecFeatures == InitFeatures /\ [][NextFeatures]_vars

(* --------------------------- the specification -------------------------- *)
\* a session of any of the notebooks
Init ==
    \/ InitNoisy
    \/ InitStacking
    \/ InitBaselines
    \/ InitFeatureEngineering
    \/ InitProbabilities
    \/ InitCover
    \/ InitFeatures
    \/ InitSoftmax
    \/ InitTweak

Next ==
    \/ NextNoisy
    \/ NextStacking
    \/ NextBaselines
    \/ NextFeatureEngineering
    \/ NextProbabilities
    \/ NextCover
    \/ NextFeatures
    \/ NextSoftmax
    \/ NextTweak

Spec == Init /\ [][Next]_vars

(* ------------------------------- claims -------------------------------- *)
\* the fold loop of the running scoring function has finished
LoopDone == pc = "loop" /\ fold = NUM_FOLDS

\* the folds 0..fold-1 have run
Ran(f) == pc = "loop" /\ f < fold

\* the trainers of the stacking notebook, and its stackers
Trainers == {"train_xgboost", "train_lightgbm", "train_catboost", "train_histgbm"}
Stackers == {"stack_lightgbm", "stack_xgboost"}

\* the validation rows of fold f in the harness that is running
ValidationRows(f) ==
    IF fn \in Trainers THEN {r \in Rows : kfold[r] = f}
    ELSE IF fn \in Stackers THEN {r \in Rows : oof_preds_df.kfold[r] = f}
    ELSE valid_idx(test_folds, f)

\* C1: in every harness the validation sets of the NUM_FOLDS folds are
\* pairwise disjoint and their union is the set of all training rows; in the
\* stacking notebook, while the assignment loop runs the rows of the folds
\* done carry their fold and the others -1, and once it has finished every
\* row carries its one fold in 0..NUM_FOLDS-1 and none keeps -1.
C1_FoldsPartitionRows ==
    /\ pc = "loop" =>
        /\ \A f, g \in Folds :
            f # g => ValidationRows(f) \cap ValidationRows(g) = {}
        /\ UNION {ValidationRows(f) : f \in Folds} = Rows
    /\ nb = "stack" /\ pc = "assign" =>
        \A r \in Rows :
            kfold[r] = IF test_folds[r] < fold THEN test_folds[r] ELSE -1
    /\ nb = "stack" /\ cell >= 1 =>
        \A r \in Rows : kfold[r] \in Folds /\ kfold[r] = test_folds[r]

C1_Witness ==
    /\ nb = "stack" /\ pc = "idle" /\ cell = 1
    /\ \A f \in Folds : \E r \in Rows : kfold[r] = f
    /\ \A r \in Rows : kfold[r] # -1

\* the scoring functions that keep out-of-fold predictions
OofFunctions ==
    {"train_model", "train_noisy_model", "score_model", "score_features"}
    \cup Trainers

\* C2: each row's out-of-fold prediction is written exactly once in a fold
\* loop, by the model of the one fold whose validation set holds the row; the
\* rows that model was fitted on do not include the row; after the loop no
\* entry is left unwritten.
C2_OofWrittenOnceByUnseeingModel ==
    pc = "loop" /\ fn \in OofFunctions =>
        \A r \in Rows :
            /\ Len(oof_writes[r]) <= 1
            /\ Len(oof_writes[r]) = 1 <=> Ran(test_folds[r])
            /\ LoopDone => Len(oof_writes[r]) = 1
            /\ Len(oof_writes[r]) = 0 => oof_preds[r] = Zero
            /\ \A i \in 1..Len(oof_writes[r]) :
                LET w == oof_writes[r][i]
                IN  /\ r \in ValidationRows(w.fold)
                    /\ \A f \in Folds : r \in ValidationRows(f) => f = w.fold
                    /\ w.est.fitted
                    /\ r \notin w.est.rows
                    /\ w.est.rows \cap ValidationRows(w.fold) = {}
                    /\ oof_preds[r] = w.value

C2_Witness ==
    /\ LoopDone /\ fn \in OofFunctions
    /\ \A r \in Rows : Len(oof_writes[r]) = 1
    /\ \E r, q \in Rows : oof_writes[r][1].fold # oof_writes[q][1].fold

\* k times the rational a
RatMulInt(a, k) == Rat(a[1] * k, a[2])

\* the scoring functions that return averaged test (or holdout) predictions
MeanFunctions ==
    {"train_model", "train_noisy_model", "score_lightgbm", "score_model"}
    \cup Trainers

\* C3: the accumulator of test predictions starts at zero and each fold's
\* model adds its predictions once with weight 1/NUM_FOLDS, so that when the
\* fold loop has finished each test row's prediction is the arithmetic mean
\* of the NUM_FOLDS per-fold predictions for the row.
C3_TestPredsAreFoldMean ==
    pc = "loop" /\ fn \in MeanFunctions /\ nb # "baselines" =>
        /\ \A f \in Folds : fold_test[f] # <<>> <=> f < fold
        /\ fold > 0 =>
            \A t \in TestRows :
                fold_test[fold - 1][t] =
                    PredictProba(model, TestFeature(t), Resolution(t))
        /\ \A t \in TestRows :
            RatMulInt(test_preds[t], NUM_FOLDS) =
                RatSum([f \in 0..(fold - 1) |-> fold_test[f][t]], 0..(fold - 1))

C3_Witness ==
    /\ LoopDone /\ fn \in MeanFunctions /\ nb # "baselines"
    /\ \E t \in TestRows, f, g \in Folds :
        /\ fold_test[f][t] # fold_test[g][t]
        /\ test_preds[t] # Zero

\* C4: what a preprocessing function passed to score_lightgbm learns in a
\* fold derives only from the fold's training rows: no validation row, no
\* holdout row and no row of another split is among the rows it learns from.
C4_PreprocessingLearnsFromTrainFold ==
    nb = "fe" /\ pc = "loop" /\ fold > 0 =>
        learned_from \subseteq train_idx(test_folds, fold - 1)

\* C5: in the stacking notebook the folds are fixed in the kfold column
\* before any model is trained, neither create_row_stats nor a train_* call
\* changes them, and the trainers and the stackers all use, for fold j, the
\* same validation rows.
C5_SameFoldsForAllModels ==
    nb = "stack" =>
        /\ used_valid # {} => cell >= 2
        /\ cell >= 1 => kfold = test_folds /\ oof_preds_df.kfold = test_folds
        /\ \A u \in used_valid :
            /\ u.X = valid_idx(test_folds, u.fold)
            /\ u.y = u.X
        /\ \A u, v \in used_valid : u.fold = v.fold => u.X = v.X /\ u.y = v.y

C5_Witness ==
    /\ nb = "stack"
    /\ \A f \in Trainers \cup Stackers, j \in Folds :
        \E u \in used_valid : u.fn = f /\ u.fold = j

\* C6: train_model and train_noisy_model, run on the same data, use the same
\* fold partition, write the same positions of oof_preds in the same folds
\* and weigh the test predictions alike; when the wrapper delegates fit and
\* predict_proba unchanged they return the same scores, test_preds and
\* oof_preds.
C6_NoisyIsTrainModelWrapped ==
    \A a \in ret["train_model"], b \in ret["train_noisy_model"] :
        /\ a.test_folds = b.test_folds
        /\ \A r \in Rows :
            /\ Len(a.oof_writes[r]) = Len(b.oof_writes[r])
            /\ \A i \in 1..Len(a.oof_writes[r]) :
                a.oof_writes[r][i].fold = b.oof_writes[r][i].fold
        /\ \A f \in Folds : a.fold_test[f] # <<>> /\ b.fold_test[f] # <<>>
        /\ ~lnl_prunes =>
            /\ a.scores = b.scores
            /\ a.test_preds = b.test_preds
            /\ a.oof_preds = b.oof_preds

C6_Witness ==
    /\ ~lnl_prunes
    /\ ret["train_model"] # {} /\ ret["train_noisy_model"] # {}
    /\ \E a \in ret["train_model"], r, q \in Rows : a.oof_preds[r] # a.oof_preds[q]

\* the rows of a loaded frame, as a set
RowsOf(frame) == {frame.rows[i] : i \in DOMAIN frame.rows}

\* C7: every call of get_training_data, whatever ran in between, returns the
\* same training set and the same holdout set, each with a fresh index
\* 0..n-1; the training set has train_size rows, is disjoint from the holdout
\* set and the two cover the rows of the file.
C7_GetTrainingDataReproducible ==
    nb = "fe" =>
        /\ Cardinality(loads) = 1
        /\ [train |-> train, holdout |-> holdout] \in loads
        /\ \A d \in loads :
            /\ Len(d.train.rows) = train_size
            /\ Cardinality(RowsOf(d.train)) = train_size
            /\ RowsOf(d.train) \cap RowsOf(d.holdout) = {}
            /\ RowsOf(d.train) \cup RowsOf(d.holdout) = FileRows
            /\ Len(d.train.rows) + Len(d.holdout.rows) = Cardinality(FileRows)
            /\ d.train.index = [i \in DOMAIN d.train.rows |-> i - 1]
            /\ d.holdout.index = [i \in DOMAIN d.holdout.rows |-> i - 1]

C7_Witness ==
    /\ nb = "fe" /\ pc = "idle"
    /\ cell > 1 /\ FeCells[cell - 1] = "get_training_data"
    /\ ret["score_lightgbm"] # {}
    /\ \E i \in DOMAIN train.rows : train.rows[i] # i

\* C8: two runs of a baseline scoring function on the same data return the
\* same fold scores.
C8_BaselineRunsRepeat ==
    nb = "baselines" =>
        \A f \in {"score_lightgbm", "score_histgbm"} :
            \A a, b \in ret[f] : a.scores = b.scores

\* C9: the estimator passed to a scoring function, and the default
\* base_estimator of FourResolutions, are never fitted: whatever calls were
\* made, the next one starts from the same unfitted estimator, and the model
\* of a fold holds what the fit of that fold gave it and nothing else.
C9_PassedEstimatorNeverFitted ==
    /\ ~sklearn_model.fitted /\ sklearn_model.rows = {}
    /\ nb = "proba" /\ pc = "loop" =>
        \E i \in DOMAIN Estimators : sklearn_model = Estimators[i]
    /\ nb = "noisy" => sklearn_model = Unfitted("pipeline")
    /\ nb = "cover" => sklearn_model = Unfitted("xgb_pipeline")
    /\ base_estimator = Unfitted("ExtraTreesClassifier")
    /\ nb \in {"noisy", "proba", "cover"} /\ pc = "loop" /\ fold > 0 =>
        /\ model.fitted
        /\ model.rows \subseteq train_idx(test_folds, fold - 1)

C9_Witness ==
    /\ nb = "noisy" /\ pc = "loop" /\ fold > 0
    /\ ret["train_model"] # {} /\ ret["train_noisy_model"] # {}
    /\ model.fitted /\ ~sklearn_model.fitted

\* C10: the engineered values of a row depend only on the raw values of the
\* row: two rows with the same raw values, in the same frame or one in train
\* and one in test, get the same engineered values.
C10_EngineeredColumnsAreRowWise ==
    nb = "features" /\ fn # None =>
        /\ \A i \in DOMAIN frames.train, j \in DOMAIN frames.test :
            frames.train[i] = frames.test[j] =>
                engineered.train[i] = engineered.test[j]
        /\ \A i, j \in DOMAIN frames.train :
            frames.train[i] = frames.train[j] =>
                engineered.train[i] = engineered.train[j]

\* C11: predict_proba of ExtendedRidgeClassifier and of ExtendedSGDClassifier
\* gives every row two non-negative values that sum to 1; the class-1 value
\* is strictly increasing in the decision value of the row, and it exceeds
\* the class-0 value exactly when the decision value is positive, which is
\* exactly when predict returns class 1.
C11_ExtendedPredictProbaIsProbability ==
    nb = "softmax" /\ fn # None =>
        LET temp == frames.train
            proba == engineered.train
            labels == engineered.test
        IN  /\ DOMAIN proba = DOMAIN temp
            /\ \A i \in DOMAIN temp :
                /\ DOMAIN proba[i] = 1..2
                /\ ~RatLess(proba[i][1], Zero)
                /\ ~RatLess(proba[i][2], Zero)
                /\ RatAdd(proba[i][1], proba[i][2]) = <<1, 1>>
                /\ RatLess(proba[i][1], proba[i][2]) <=> temp[i] > 0
                /\ temp[i] > 0 <=> labels[i] = 1
                /\ \A j \in DOMAIN temp :
                    temp[i] < temp[j] => RatLess(proba[i][2], proba[j][2])

C11_Witness ==
    /\ nb = "softmax" /\ fn = "ExtendedSGDClassifier"
    /\ Len(frames.train) = 2
    /\ frames.train[1] < 0 /\ frames.train[2] > 0
    /\ engineered.test = <<0, 1>>

\* C12: adding the offsets to the averaged test probabilities before argmax
\* changes the label of a test row only to a class whose offset is positive
\* (class 2 or 3): a row predicted for a class of offset zero was predicted
\* for it before, so no such class gains rows, and every test row still gets
\* exactly one label.
C12_TweakMovesOnlyToOffsetClasses ==
    nb = "tweak" /\ fn # None =>
        LET before == argmax(frames.test)
            after == engineered.test
            count(labels, c) == Cardinality({t \in DOMAIN labels : labels[t] = c})
        IN  /\ DOMAIN after = DOMAIN frames.test
            /\ \A t \in DOMAIN after :
                /\ after[t] \in 0..9
                /\ after[t] # before[t] =>
                    /\ after[t] \in {2, 3}
                    /\ RatLess(Zero, Offsets[fn][after[t] + 1])
            /\ \A c \in 0..9 :
                Offsets[fn][c + 1] = Zero => count(after, c) <= count(before, c)

C12_Witness ==
    /\ nb = "tweak" /\ fn = "new_proba1"
    /\ Len(frames.test) = 2
    /\ argmax(frames.test) = <<1, 4>>
    /\ engineered.test = <<2, 3>>

\* C13: in train_xgboost, train_lightgbm, train_catboost, stack_lightgbm,
\* stack_xgboost and the score_lightgbm functions, no validation row of a fold
\* is passed to the fit call of the model of that fold, neither among the
\* rows it is fitted on nor otherwise.
C13_ValidationRowsNotPassedToFit ==
    /\ pc = "loop" /\ fold > 0
    /\ fn \in (Trainers \ {"train_histgbm"}) \cup Stackers \cup {"score_lightgbm"}
    =>  /\ model.fitted
        /\ model.rows \cap ValidationRows(fold - 1) = {}
        /\ model.eval_set \cap ValidationRows(fold - 1) = {}

\* C14: in hillshade_features each clipped column is the clip of its own
\* source column: for every row, Hillshade_9am_Clipped, Hillshade_Noon_Clipped
\* and Hillshade_3pm_Clipped are min(255, max(0, v)) of the row's
\* Hillshade_9am, Hillshade_Noon and Hillshade_3pm.
C14_ClippedColumnsClipTheirOwnSource ==
    nb = "features" /\ fn = "hillshade_features" =>
        \A side \in {"train", "test"} :
            \A i \in DOMAIN frames[side] :
                LET raw == frames[side][i]
                    new == engineered[side][i]
                    clipped(v) == Min({255, Max({0, v})})
                IN  /\ new.Hillshade_9am_Clipped = clipped(raw.Hillshade_9am)
                    /\ new.Hillshade_Noon_Clipped = clipped(raw.Hillshade_Noon)
                    /\ new.Hillshade_3pm_Clipped = clipped(raw.Hillshade_3pm)

\* C15: a trainer of the stacking notebook called with new_features = True
\* trains, validates and predicts on all_features, the list with the row
\* statistics, and with the default new_features = False on features; so the
\* predictions stored as XGB_Stats, LGBM_Stats, Cat_Stats and Hist_Stats are
\* those of models that used the row statistics.
C15_NewFeaturesSelectsAllFeatures ==
    nb = "stack" /\ pc = "loop" /\ fn \in Trainers =>
        LET called == Cells[cell - 1]
            wanted == IF called.new_features THEN "all_features" ELSE "features"
            used == UNION {{oof_writes[r][i].est.columns :
                                i \in 1..Len(oof_writes[r])} : r \in Rows}
        IN  /\ fold > 0 => model.columns = wanted /\ used = {wanted}
            /\ called.column \in
                    {"XGB_Stats", "LGBM_Stats", "Cat_Stats", "Hist_Stats"}
               => used \subseteq {"all_features"}

=============================================================================
